-------------------------- MODULE CredentialsProofs --------------------------
(***************************************************************************)
(* Proofs about Credentials, for any number of processes, logins and hosts. *)
(***************************************************************************)
EXTENDS Credentials, TLAPS

Seen == [type : Types \cup {None}, login : Logins \cup {None}, file : Configs,
         record : Records \cup {None}]

\* What Init starts with is typed.
LEMMA Plain ==
    ASSUME layout \in {"top", "table"}
    PROVE  Blank \in Configs /\ Unseen \in Seen
<1>1. Blank \in Configs
    BY NoneAssumption DEF Blank, Configs
<1> QED
    BY <1>1 DEF Unseen, Seen

\* A patch gives a file and a record of their types.
LEMMA PatchTyped ==
    ASSUME layout \in {"top", "table"}, NEW c \in Configs, NEW type \in Types \cup {None}
    PROVE  /\ ResolvePatch(type) \in Types
           /\ ApplyPatch(c, ResolvePatch(type)) \in Configs
           /\ Ownership(c, ResolvePatch(type)) \in Records
<1>1. ResolvePatch(type) \in Types
    BY DEF ResolvePatch, Types
<1>2. ASSUME NEW route \in Types PROVE ApplyPatch(c, route) \in Configs
    BY <1>2, NoneAssumption DEF ApplyPatch, Parsed, Configs, Blank, Types
<1>3. ASSUME NEW route \in Types PROVE Ownership(c, route) \in Records
    BY <1>3 DEF Ownership, Records, Parsed, Configs, Blank
<1> QED
    BY <1>1, <1>2, <1>3

\* So does a removal, and it leaves the user's settings alone.
LEMMA RemovalTyped ==
    ASSUME layout \in {"top", "table"}, NEW c \in Configs, NEW record \in Records
    PROVE  /\ RemoveRecords(c, record) \in Configs
           /\ RemoveRecords(c, record).settings = c.settings
<1> DEFINE route == IF c.route = record.route THEN None ELSE c.route
           other == IF c.other = "patch" THEN None ELSE c.other
<1>1. route \in Types \cup {"own", None} /\ other \in {"patch", "own", None}
    BY DEF Configs
<1>2. RemoveRecords(c, record) = Without(c, route, other, record.created)
    BY DEF RemoveRecords
<1>3. record.created \in BOOLEAN
    BY DEF Records
<1>4. c.settings \/ c.route # None \/ c.other # None => c.entry \/ layout = "top"
    BY DEF Configs
<1>5. route # None => c.route # None
    OBVIOUS
<1>6. other # None => c.other # None
    OBVIOUS
<1> HIDE DEF route, other
<1> QED
    BY <1>1, <1>2, <1>3, <1>4, <1>5, <1>6 DEF Without, Configs

\* A route that is not the recorded one stays.
LEMMA RemovalKeeps ==
    ASSUME NEW c \in Configs, NEW record \in Records, c.route = "own"
    PROVE  RemoveRecords(c, record).route = "own"
<1>1. record.route # "own"
    BY DEF Records, Types
<1> QED
    BY <1>1 DEF RemoveRecords, Without, Configs

\* A write over an old text may break the file, and changes nothing else of it.
LEMMA WrittenTyped ==
    ASSUME NEW c \in Configs, NEW d \in Written(c)
    PROVE  d \in Configs /\ d.settings = c.settings /\ d.route = c.route
BY DEF Written, Configs

-----------------------------------------------------------------------------
(* Control and types.                                                       *)

\* The steps of each kind of job, and what the process holds at them.
Patching  == {"type", "read", "trunc", "write"}
Disabling == {"load", "check", "removeTrunc", "removeWrite", "drop", "keep", "rewrite"}

At(kind, at) ==
    \/ kind = None /\ at = "idle"
    \/ kind = "enable" /\ at \in Patching \cup {"record", "recordWrite", "inject", "ended"}
    \/ kind = "disable" /\ at \in Disabling \cup {"inject", "ended"}
    \/ kind = "apiKey" /\ at \in Patching \cup {"store", "routes", "ended"}
    \/ kind = "oauth" /\ at \in Patching \cup {"capture", "store", "mount", "routes", "ended"}
    \/ kind = "exposed" /\ at \in {"capture", "mount", "routes", "ended"}
    \/ kind = "clean" /\ at \in {"scan", "unlink", "ended"}

With(kind, at, found) ==
    /\ at = "idle" => found = Unseen
    /\ at \in {"check", "keep", "rewrite", "record", "recordWrite"} => found.record # None
    /\ at = "mount" \/ (at = "store" /\ kind = "oauth") => found.login # None

Placed(p) == At(job[p], pc[p])
Holds(p)  == With(job[p], pc[p], seen[p])

Control == TypeOK /\ \A p \in Processes : Placed(p) /\ Holds(p)

Others(p) == \A q \in Processes \ {p} :
    pc'[q] = pc[q] /\ job'[q] = job[q] /\ seen'[q] = seen[q]

\* A process moves: what it leaves of the files, and of itself, is well typed.
LEMMA ControlOfMove ==
    ASSUME Control, NEW p \in Processes, NEW at \in Pcs, NEW kind \in Kinds \cup {None},
           NEW found \in Seen,
           pc' = [pc EXCEPT ![p] = at], job' = [job EXCEPT ![p] = kind],
           seen' = [seen EXCEPT ![p] = found], UNCHANGED <<regime, layout>>,
           stored' \in [type : Types, login : Logins] \cup {None},
           mount' \in {Nothing, Phantom} \cup {RealOf(l) : l \in Logins},
           config' \in Configs, sidecar' \in Records \cup {None},
           alone' \in Processes \cup {None}, owned' \in BOOLEAN, mine' \in BOOLEAN,
           Placed(p)', Holds(p)'
    PROVE  Control' /\ Others(p)
<1>1. /\ pc' \in [Processes -> Pcs] /\ job' \in [Processes -> Kinds \cup {None}]
      /\ seen' \in [Processes -> Seen]
    BY DEF Control, TypeOK, Seen
<1>2. Configs' = Configs
    BY DEF Configs
<1>3. TypeOK'
    BY <1>1, <1>2 DEF Control, TypeOK, Seen
<1>4. Others(p)
    BY DEF Others, Control, TypeOK
<1>5. \A q \in Processes \ {p} : Placed(q)' /\ Holds(q)'
    BY <1>4 DEF Control, Others, Placed, Holds
<1> QED
    BY <1>3, <1>4, <1>5 DEF Control

\* A process goes on with its job, and what it leaves of the files is typed.
StepsTo(p, at, found) ==
    /\ pc' = [pc EXCEPT ![p] = at] /\ seen' = [seen EXCEPT ![p] = found]
    /\ UNCHANGED <<regime, layout, job>>
FilesOK ==
    /\ stored \in [type : Types, login : Logins] \cup {None}
    /\ mount \in {Nothing, Phantom} \cup {RealOf(l) : l \in Logins}
    /\ config \in Configs /\ sidecar \in Records \cup {None}
    /\ alone \in Processes \cup {None} /\ owned \in BOOLEAN /\ mine \in BOOLEAN

\* Another step of the same job.
LEMMA ControlOfStep ==
    ASSUME Control, NEW p \in Processes, NEW at \in Pcs, NEW found \in Seen,
           StepsTo(p, at, found), FilesOK', At(job[p], at), With(job[p], at, found)
    PROVE  Control' /\ Others(p)
<1>1. job' = [job EXCEPT ![p] = job[p]] /\ job[p] \in Kinds \cup {None}
    BY DEF Control, TypeOK, StepsTo
<1>2. pc'[p] = at /\ seen'[p] = found /\ job'[p] = job[p]
    BY DEF Control, TypeOK, StepsTo
<1>3. Placed(p)' /\ Holds(p)'
    BY <1>2 DEF Placed, Holds
<1>4. /\ stored' \in [type : Types, login : Logins] \cup {None}
      /\ mount' \in {Nothing, Phantom} \cup {RealOf(l) : l \in Logins}
      /\ config' \in Configs /\ sidecar' \in Records \cup {None}
      /\ alone' \in Processes \cup {None} /\ owned' \in BOOLEAN /\ mine' \in BOOLEAN
    BY DEF FilesOK, StepsTo, Configs
<1> QED
    BY <1>1, <1>3, <1>4, ControlOfMove DEF StepsTo

\* The types, for the steps below to cite.
LEMMA FilesTyped ==
    ASSUME Control
    PROVE  /\ layout \in {"top", "table"} /\ stored \in [type : Types, login : Logins] \cup {None}
           /\ mount \in {Nothing, Phantom} \cup {RealOf(l) : l \in Logins}
           /\ config \in Configs /\ sidecar \in Records \cup {None}
           /\ alone \in Processes \cup {None} /\ owned \in BOOLEAN /\ mine \in BOOLEAN
           /\ \A p \in Processes : pc[p] \in Pcs /\ seen[p] \in Seen /\ job[p] \in Kinds \cup {None}
BY LayoutAssumption DEF Control, TypeOK, Seen

\* Files that are left alone, or given a typed content.
LEMMA FilesStay ==
    ASSUME Control, UNCHANGED layout,
           stored' = stored \/ stored' \in [type : Types, login : Logins] \cup {None},
           mount' = mount \/ mount' \in {Nothing, Phantom} \cup {RealOf(l) : l \in Logins},
           config' = config \/ config' \in Configs,
           sidecar' = sidecar \/ sidecar' \in Records \cup {None},
           alone' \in {alone, None}, owned' \in {owned} \cup BOOLEAN, mine' \in {mine} \cup BOOLEAN
    PROVE  FilesOK'
BY FilesTyped DEF FilesOK, Configs

\* A process that takes up a job holds nothing yet.
LEMMA BeginControl ==
    ASSUME Control, NEW p \in Processes, NEW kind \in Kinds, Begin(p, kind)
    PROVE  Control' /\ Others(p)
<1>1. FirstStep[kind] \in Pcs /\ At(kind, FirstStep[kind]) /\ With(kind, FirstStep[kind], Unseen)
    BY DEF FirstStep, Kinds, Pcs, At, With, Patching, Disabling
<1>2. /\ pc' = [pc EXCEPT ![p] = FirstStep[kind]] /\ job' = [job EXCEPT ![p] = kind]
      /\ UNCHANGED files /\ seen' = [seen EXCEPT ![p] = Unseen]
      /\ alone' \in Processes \cup {None} /\ owned' \in BOOLEAN /\ mine' \in BOOLEAN
    BY FilesTyped DEF Begin, Goto, Disturb, Control, TypeOK, Holds, With
<1>3. pc'[p] = FirstStep[kind] /\ job'[p] = kind /\ seen'[p] = Unseen
    BY <1>2 DEF Control, TypeOK
<1>4. Placed(p)' /\ Holds(p)'
    BY <1>1, <1>3 DEF Placed, Holds
<1> QED
    BY <1>1, <1>2, <1>4, FilesTyped, Plain, ControlOfMove DEF files

\* A process that is done or killed holds nothing any more.
LEMMA ForgetControl ==
    ASSUME Control, NEW p \in Processes, Exit(p) \/ Kill(p)
    PROVE  Control' /\ Others(p)
<1>1. /\ pc' = [pc EXCEPT ![p] = "idle"] /\ job' = [job EXCEPT ![p] = None]
      /\ seen' = [seen EXCEPT ![p] = Unseen] /\ UNCHANGED files
      /\ alone' \in Processes \cup {None} /\ owned' \in BOOLEAN /\ mine' \in BOOLEAN
    BY FilesTyped DEF Exit, Kill, Forget, Goto
<1>2. pc'[p] = "idle" /\ job'[p] = None /\ seen'[p] = Unseen
    BY <1>1 DEF Control, TypeOK
<1>3. Placed(p)' /\ Holds(p)'
    BY <1>2 DEF Placed, Holds, At, With
<1>4. "idle" \in Pcs /\ Unseen \in Seen
    BY FilesTyped, Plain DEF Pcs
<1> QED
    BY <1>1, <1>3, <1>4, FilesTyped, ControlOfMove DEF files

\* The launch that enables: reading, and cutting the file.
LEMMA PatchControl ==
    ASSUME Control, NEW p \in Processes,
           ReadType(p) \/ ReadTypeFails(p) \/ ReadConfig(p) \/ Truncate(p)
    PROVE  Control' /\ Others(p)
<1>1. \A at \in Patching : pc[p] \in Patching => At(job[p], at) /\ With(job[p], at, seen[p])
    BY DEF Control, Placed, Holds, At, With, Patching, Disabling
<1>2. seen[p] \in Seen
    BY FilesTyped
<1>3. CASE ReadType(p)
    <2> DEFINE found == [seen[p] EXCEPT !.type = IF stored = None THEN None ELSE stored.type]
    <2>1. pc[p] = "type" /\ StepsTo(p, "read", found) /\ UNCHANGED <<files, ghosts>>
        BY <1>3 DEF ReadType, StepsTo, Goto, files, ghosts
    <2>2. FilesOK'
        BY <2>1, FilesStay DEF files, ghosts
    <2>3. found \in Seen /\ At(job[p], "read") /\ With(job[p], "read", found)
        BY <1>1, <2>1, FilesTyped DEF Seen, Patching, With
    <2> HIDE DEF found
    <2> QED
        BY <2>1, <2>2, <2>3, ControlOfStep DEF Pcs
<1>4. CASE ReadTypeFails(p)
    <2>1. /\ pc[p] = "type" /\ StepsTo(p, "read", seen[p])
          /\ UNCHANGED <<files, owned, mine>> /\ alone' \in {alone, None}
        BY <1>4 DEF ReadTypeFails, StepsTo, Goto, files, Control, TypeOK
    <2>2. FilesOK'
        BY <2>1, FilesStay DEF files
    <2>3. At(job[p], "read") /\ With(job[p], "read", seen[p])
        BY <1>1, <2>1 DEF Patching
    <2> QED
        BY <1>2, <2>1, <2>2, <2>3, ControlOfStep DEF Pcs
<1>5. CASE ReadConfig(p)
    <2> DEFINE found == [seen[p] EXCEPT !.file = config]
    <2>1. pc[p] = "read" /\ StepsTo(p, "trunc", found) /\ UNCHANGED <<files, ghosts>>
        BY <1>5 DEF ReadConfig, StepsTo, Goto, files, ghosts
    <2>2. FilesOK'
        BY <2>1, FilesStay DEF files, ghosts
    <2>3. found \in Seen /\ At(job[p], "trunc") /\ With(job[p], "trunc", found)
        BY <1>1, <2>1, FilesTyped DEF Seen, Patching, With
    <2> HIDE DEF found
    <2> QED
        BY <2>1, <2>2, <2>3, ControlOfStep DEF Pcs
<1>6. CASE Truncate(p)
    <2>1. /\ pc[p] = "trunc" /\ StepsTo(p, "write", seen[p])
          /\ UNCHANGED <<layout, stored, mount, sidecar, alone, owned>>
          /\ config' = Blank /\ mine' \in BOOLEAN
        BY <1>6 DEF Truncate, StepsTo, Goto, Control, TypeOK
    <2>2. FilesOK'
        BY <2>1, FilesStay, FilesTyped, Plain
    <2>3. At(job[p], "write") /\ With(job[p], "write", seen[p])
        BY <1>1, <2>1 DEF Patching
    <2> QED
        BY <1>2, <2>1, <2>2, <2>3, ControlOfStep DEF Pcs
<1> QED
    BY <1>3, <1>4, <1>5, <1>6

\* The write, by a launch or a login.
LEMMA WriteControl ==
    ASSUME Control, NEW p \in Processes, WriteConfig(p)
    PROVE  Control' /\ Others(p)
<1> DEFINE file  == seen[p].file
           route == ResolvePatch(seen[p].type)
           found == [Unseen EXCEPT !.record = IF IsLogin(p) THEN None ELSE Ownership(file, route)]
           at    == IF IsLogin(p) THEN "ended" ELSE "record"
<1>1. /\ pc[p] = "write" /\ StepsTo(p, at, found)
      /\ config' \in Written(ApplyPatch(file, route)) /\ owned' = FALSE
      /\ UNCHANGED <<layout, stored, mount, sidecar, alone, mine>>
    BY DEF WriteConfig, Goto, StepsTo
<1>2. seen[p].file \in Configs /\ seen[p].type \in Types \cup {None}
    BY FilesTyped DEF Seen
<1>3. ApplyPatch(file, route) \in Configs /\ Ownership(file, route) \in Records
    BY <1>2, FilesTyped, PatchTyped
<1>4. config' \in Configs
    BY <1>1, <1>3, WrittenTyped
<1>5. found \in Seen /\ found.record = IF IsLogin(p) THEN None ELSE Ownership(file, route)
    BY <1>3, FilesTyped, Plain DEF Seen, Unseen
<1>6. Ownership(file, route) # None
    BY <1>3, NoneAssumption
<1> HIDE DEF found, file, route
<1>7. job[p] \in {"enable", "apiKey", "oauth"}
    BY <1>1 DEF Control, Placed, At, Patching, Disabling
<1>8. At(job[p], at) /\ With(job[p], at, found)
    BY <1>5, <1>6, <1>7 DEF At, With, IsLogin
<1>9. FilesOK'
    BY <1>1, <1>4, FilesStay
<1>10. at \in Pcs
    BY DEF Pcs
<1> HIDE DEF at
<1> QED
    BY <1>1, <1>5, <1>8, <1>9, <1>10, ControlOfStep

\* The sidecar, written or dropped.
LEMMA RecordControl ==
    ASSUME Control, NEW p \in Processes, TruncateSidecar(p) \/ RecordManaged(p) \/ DropRecord(p)
    PROVE  Control' /\ Others(p)
<1>1. /\ pc[p] \in {"record", "recordWrite"} => job[p] = "enable" /\ seen[p].record # None
      /\ pc[p] = "drop" => job[p] = "disable"
    BY DEF Control, Placed, Holds, At, With, Patching, Disabling
<1>2. seen[p] \in Seen /\ seen[p].record \in Records \cup {None}
    BY FilesTyped DEF Seen
<1>3. CASE TruncateSidecar(p)
    <2>1. /\ pc[p] = "record" /\ StepsTo(p, "recordWrite", seen[p])
          /\ sidecar' = None /\ UNCHANGED <<layout, stored, mount, config, ghosts>>
        BY <1>3 DEF TruncateSidecar, StepsTo, Goto, ghosts, Control, TypeOK
    <2>2. FilesOK'
        BY <2>1, FilesStay DEF ghosts
    <2>3. At(job[p], "recordWrite") /\ With(job[p], "recordWrite", seen[p])
        BY <1>1, <2>1 DEF At, With
    <2> QED
        BY <1>2, <2>1, <2>2, <2>3, ControlOfStep DEF Pcs
<1>4. CASE RecordManaged(p)
    <2>1. /\ pc[p] = "recordWrite" /\ StepsTo(p, "inject", seen[p])
          /\ sidecar' \in WrittenSidecar(seen[p].record)
          /\ UNCHANGED <<layout, stored, mount, config, ghosts>>
        BY <1>4 DEF RecordManaged, StepsTo, Goto, ghosts, Control, TypeOK
    <2>2. sidecar' \in Records \cup {None}
        BY <1>1, <1>2, <2>1 DEF WrittenSidecar
    <2>3. FilesOK'
        BY <2>1, <2>2, FilesStay DEF ghosts
    <2>4. At(job[p], "inject") /\ With(job[p], "inject", seen[p])
        BY <1>1, <2>1 DEF At, With
    <2> QED
        BY <1>2, <2>1, <2>3, <2>4, ControlOfStep DEF Pcs
<1>5. CASE DropRecord(p)
    <2>1. /\ pc[p] = "drop" /\ StepsTo(p, "inject", seen[p])
          /\ sidecar' = None /\ UNCHANGED <<layout, stored, mount, config, ghosts>>
        BY <1>5 DEF DropRecord, StepsTo, Goto, ghosts, Control, TypeOK
    <2>2. FilesOK'
        BY <2>1, FilesStay DEF ghosts
    <2>3. At(job[p], "inject") /\ With(job[p], "inject", seen[p])
        BY <1>1, <2>1 DEF At, With
    <2> QED
        BY <1>2, <2>1, <2>2, <2>3, ControlOfStep DEF Pcs
<1> QED
    BY <1>3, <1>4, <1>5

\* The launch that disables.
LEMMA RemoveControl ==
    ASSUME Control, NEW p \in Processes,
           LoadSidecar(p) \/ CheckConfig(p) \/ RemoveTruncate(p) \/ RemoveWrite(p) \/ KeepRecord(p)
    PROVE  Control' /\ Others(p)
<1>1. /\ pc[p] \in Disabling => job[p] = "disable"
      /\ pc[p] \in {"check", "keep", "rewrite"} => seen[p].record # None
    BY DEF Control, Placed, Holds, At, With, Patching, Disabling
<1>2. /\ seen[p] \in Seen /\ seen[p].record \in Records \cup {None} /\ seen[p].file \in Configs
      /\ Unseen \in Seen
    BY FilesTyped, Plain DEF Seen
<1>3. CASE LoadSidecar(p)
    <2> DEFINE found == [seen[p] EXCEPT !.record = sidecar]
               at    == IF sidecar = None THEN "drop" ELSE "check"
    <2>1. pc[p] = "load" /\ StepsTo(p, at, found) /\ UNCHANGED <<files, ghosts>>
        BY <1>3 DEF LoadSidecar, StepsTo, Goto, files, ghosts
    <2>2. FilesOK'
        BY <2>1, FilesStay DEF files, ghosts
    <2>3. found \in Seen
        BY <1>2, FilesTyped DEF Seen
    <2>4. at \in Pcs /\ At(job[p], at) /\ With(job[p], at, found)
        BY <1>1, <1>2, <2>1 DEF Seen, At, With, Disabling, Pcs
    <2> HIDE DEF found, at
    <2> QED
        BY <2>1, <2>2, <2>3, <2>4, ControlOfStep
<1>4. CASE CheckConfig(p)
    <2> DEFINE left == RemoveRecords(config, seen[p].record)
    <2>1. pc[p] = "check" /\ UNCHANGED <<files, job, ghosts>>
        BY <1>4 DEF CheckConfig, ghosts
    <2>2. left \in Configs
        BY <1>1, <1>2, <2>1, FilesTyped, RemovalTyped
    <2>3. [Unseen EXCEPT !.file = left] \in Seen
        BY <1>2, <2>2 DEF Seen
    <2>4. PICK at \in {"keep", "drop", "removeTrunc"}, found \in Seen :
             StepsTo(p, at, found) /\ (at = "keep" => found = seen[p])
        BY <1>2, <1>4, <2>3 DEF CheckConfig, StepsTo, Goto, files, Control, TypeOK
    <2>5. at \in Pcs /\ At(job[p], at) /\ With(job[p], at, found)
        BY <1>1, <2>1, <2>4 DEF At, With, Disabling, Pcs
    <2>6. FilesOK'
        BY <2>1, FilesStay DEF files, ghosts
    <2> QED
        BY <2>4, <2>5, <2>6, ControlOfStep
<1>5. CASE RemoveTruncate(p)
    <2>1. /\ pc[p] = "removeTrunc" /\ StepsTo(p, "removeWrite", seen[p])
          /\ config' = Blank /\ UNCHANGED <<layout, stored, mount, sidecar, ghosts>>
        BY <1>5 DEF RemoveTruncate, StepsTo, Goto, ghosts, Control, TypeOK
    <2>2. FilesOK'
        BY <2>1, FilesStay, FilesTyped, Plain DEF ghosts
    <2>3. At(job[p], "removeWrite") /\ With(job[p], "removeWrite", seen[p])
        BY <1>1, <2>1 DEF At, With, Disabling
    <2> QED
        BY <1>2, <2>1, <2>2, <2>3, ControlOfStep DEF Pcs
<1>6. CASE RemoveWrite(p)
    <2>1. /\ pc[p] = "removeWrite" /\ StepsTo(p, "drop", Unseen)
          /\ config' \in Written(seen[p].file)
          /\ UNCHANGED <<layout, stored, mount, sidecar, ghosts>>
        BY <1>6 DEF RemoveWrite, StepsTo, Goto, ghosts
    <2>2. config' \in Configs
        BY <1>2, <2>1, WrittenTyped
    <2>3. FilesOK'
        BY <2>1, <2>2, FilesStay DEF ghosts
    <2>4. At(job[p], "drop") /\ With(job[p], "drop", Unseen)
        BY <1>1, <2>1 DEF At, With, Disabling
    <2> QED
        BY <1>2, <2>1, <2>3, <2>4, ControlOfStep DEF Pcs
<1>7. CASE KeepRecord(p)
    <2>1. /\ pc[p] \in {"keep", "rewrite"} /\ sidecar' \in {None} \cup WrittenSidecar(seen[p].record)
          /\ UNCHANGED <<layout, stored, mount, config, ghosts>>
        BY <1>7 DEF KeepRecord, ghosts
    <2>2. PICK at \in {"rewrite", "inject"} : StepsTo(p, at, seen[p])
        BY <1>7 DEF KeepRecord, StepsTo, Goto, Control, TypeOK
    <2>3. at \in Pcs /\ At(job[p], at) /\ With(job[p], at, seen[p])
        BY <1>1, <2>1 DEF At, With, Disabling, Pcs
    <2>4. sidecar' \in Records \cup {None}
        BY <1>1, <1>2, <2>1 DEF WrittenSidecar
    <2>5. FilesOK'
        BY <2>1, <2>4, FilesStay DEF ghosts
    <2> QED
        BY <1>2, <2>2, <2>3, <2>5, ControlOfStep
<1> QED
    BY <1>3, <1>4, <1>5, <1>6, <1>7

\* Logins, tokens and cleaning.
LEMMA LoginControl ==
    ASSUME Control, NEW p \in Processes,
           InjectVaultTokens(p) \/ Capture(p) \/ StoreCapture(p) \/ StoreApiKey(p) \/ WriteMount(p)
           \/ RefreshVaultRoutes(p) \/ ScanLeaked(p) \/ Clean(p)
    PROVE  Control' /\ Others(p)
<1>1. /\ pc[p] = "inject" => job[p] \in {"enable", "disable"}
      /\ pc[p] = "capture" => job[p] \in {"oauth", "exposed"}
      /\ pc[p] = "store" => job[p] \in {"oauth", "apiKey"}
      /\ pc[p] = "store" /\ job[p] = "oauth" => seen[p].login # None
      /\ pc[p] = "mount" => job[p] \in {"oauth", "exposed"} /\ seen[p].login # None
      /\ pc[p] = "routes" => job[p] \in {"oauth", "exposed", "apiKey"}
      /\ pc[p] \in {"scan", "unlink"} => job[p] = "clean"
    BY DEF Control, Placed, Holds, At, With, Patching, Disabling
<1>2. seen[p] \in Seen /\ seen[p].login \in Logins \cup {None} /\ Unseen \in Seen
    BY FilesTyped, Plain DEF Seen
<1>3. CASE InjectVaultTokens(p)
    <2>1. pc[p] = "inject" /\ UNCHANGED <<files, alone, mine>> /\ owned' \in BOOLEAN
        BY <1>3, FilesTyped DEF InjectVaultTokens
    <2>2. PICK token \in {None} \cup (IF stored = None THEN {} ELSE {stored.type}) :
             StepsTo(p, "ended", [Unseen EXCEPT !.type = token])
        BY <1>3 DEF InjectVaultTokens, StepsTo, Goto, files
    <2> DEFINE found == [Unseen EXCEPT !.type = token]
    <2>3. found \in Seen
        BY <1>2, FilesTyped DEF Seen
    <2>4. At(job[p], "ended") /\ With(job[p], "ended", found)
        BY <1>1, <2>1 DEF At, With
    <2>5. FilesOK'
        BY <2>1, FilesStay DEF files
    <2>6. StepsTo(p, "ended", found)
        BY <2>2
    <2> HIDE DEF found
    <2> QED
        BY <2>3, <2>4, <2>5, <2>6, ControlOfStep DEF Pcs
<1>4. CASE Capture(p)
    <2>1. pc[p] = "capture" /\ UNCHANGED <<files, job, ghosts>>
        BY <1>4 DEF Capture
    <2>2. \A l \in Logins : [seen[p] EXCEPT !.login = l] \in Seen
                            /\ [seen[p] EXCEPT !.login = l].login = l
        BY <1>2 DEF Seen
    <2>3. PICK at \in {"mount", "store", "ended", "type"}, found \in Seen :
             /\ StepsTo(p, at, found)
             /\ at \in {"mount", "store"} => found.login \in Logins
             /\ at \in {"store", "type"} => job[p] # "exposed"
             /\ at = "mount" => job[p] = "exposed"
        <3>1. CASE \E l \in Logins : seen' = [seen EXCEPT ![p].login = l]
                   /\ pc' = [pc EXCEPT ![p] = IF job[p] = "exposed" THEN "mount" ELSE "store"]
            <4>1. PICK l \in Logins : seen' = [seen EXCEPT ![p].login = l]
                BY <3>1
            <4>2. StepsTo(p, IF job[p] = "exposed" THEN "mount" ELSE "store",
                          [seen[p] EXCEPT !.login = l])
                BY <2>1, <3>1, <4>1 DEF StepsTo, files
            <4> QED
                BY <2>2, <4>2
        <3>2. CASE UNCHANGED seen
                   /\ pc' = [pc EXCEPT ![p] = IF job[p] = "exposed" THEN "ended" ELSE "type"]
            <4>1. StepsTo(p, IF job[p] = "exposed" THEN "ended" ELSE "type", seen[p])
                BY <2>1, <3>2 DEF StepsTo, files, Control, TypeOK
            <4> QED
                BY <1>2, <4>1
        <3> QED
            BY <1>4, <3>1, <3>2 DEF Capture, Goto
    <2>4. job[p] \in {"oauth", "exposed"}
        BY <1>1, <2>1
    <2>5. at \in Pcs /\ At(job[p], at) /\ With(job[p], at, found)
        BY <2>3, <2>4, NoneAssumption DEF At, With, Patching, Pcs
    <2>6. FilesOK'
        BY <2>1, FilesStay DEF files, ghosts
    <2> QED
        BY <2>3, <2>5, <2>6, ControlOfStep
<1>5. CASE StoreCapture(p)
    <2>1. /\ pc[p] = "store" /\ job[p] = "oauth"
          /\ UNCHANGED <<layout, mount, config, sidecar, ghosts>>
          /\ \/ /\ StepsTo(p, "mount", seen[p])
                /\ stored' = [type |-> "oauth", login |-> seen[p].login]
             \/ StepsTo(p, "type", Unseen) /\ UNCHANGED stored
        BY <1>1, <1>5 DEF StoreCapture, StepsTo, Goto, ghosts, Control, TypeOK
    <2>2. stored' = stored \/ stored' \in [type : Types, login : Logins]
        BY <1>1, <1>2, <2>1 DEF Types
    <2>3. /\ At(job[p], "mount") /\ With(job[p], "mount", seen[p])
          /\ At(job[p], "type") /\ With(job[p], "type", Unseen)
        BY <1>1, <2>1, NoneAssumption DEF At, With, Patching
    <2>4. FilesOK'
        BY <2>1, <2>2, FilesStay DEF ghosts
    <2> QED
        BY <1>2, <2>1, <2>3, <2>4, ControlOfStep DEF Pcs
<1>6. CASE StoreApiKey(p)
    <2>1. /\ pc[p] = "store" /\ job[p] = "apiKey" /\ StepsTo(p, "routes", seen[p])
          /\ UNCHANGED <<layout, mount, config, sidecar, ghosts>>
          /\ \E l \in Logins : stored' = [type |-> "api_key", login |-> l]
        BY <1>6 DEF StoreApiKey, StepsTo, Goto, ghosts, Control, TypeOK
    <2>2. stored' \in [type : Types, login : Logins]
        BY <2>1 DEF Types
    <2>3. At(job[p], "routes") /\ With(job[p], "routes", seen[p])
        BY <2>1 DEF At, With
    <2>4. FilesOK'
        BY <2>1, <2>2, FilesStay DEF ghosts
    <2> QED
        BY <1>2, <2>1, <2>3, <2>4, ControlOfStep DEF Pcs
<1>7. CASE WriteMount(p)
    <2>1. /\ pc[p] = "mount" /\ StepsTo(p, "routes", seen[p])
          /\ UNCHANGED <<layout, stored, config, sidecar, ghosts>>
          /\ mount' \in {mount, Phantom, RealOf(seen[p].login)}
        BY <1>7 DEF WriteMount, MountWritten, StepsTo, Goto, ghosts, Control, TypeOK
    <2>2. mount' = mount \/ mount' \in {Nothing, Phantom} \cup {RealOf(l) : l \in Logins}
        BY <1>1, <1>2, <2>1
    <2>3. At(job[p], "routes") /\ With(job[p], "routes", seen[p])
        BY <1>1, <2>1 DEF At, With
    <2>4. FilesOK'
        BY <2>1, <2>2, FilesStay DEF ghosts
    <2> QED
        BY <1>2, <2>1, <2>3, <2>4, ControlOfStep DEF Pcs
<1>8. CASE RefreshVaultRoutes(p)
    <2>1. /\ pc[p] = "routes" /\ UNCHANGED <<files, ghosts>>
          /\ StepsTo(p, IF job[p] = "exposed" THEN "ended" ELSE "type", Unseen)
        BY <1>8 DEF RefreshVaultRoutes, StepsTo, Goto, files, ghosts
    <2>2. /\ job[p] = "exposed" => At(job[p], "ended")
          /\ job[p] # "exposed" => At(job[p], "type")
          /\ With(job[p], "ended", Unseen) /\ With(job[p], "type", Unseen)
        BY <1>1, <2>1 DEF At, With, Patching
    <2>3. FilesOK'
        BY <2>1, FilesStay DEF files, ghosts
    <2>4. CASE job[p] = "exposed"
        BY <1>2, <2>1, <2>2, <2>3, <2>4, ControlOfStep DEF Pcs
    <2>5. CASE job[p] # "exposed"
        BY <1>2, <2>1, <2>2, <2>3, <2>5, ControlOfStep DEF Pcs
    <2> QED
        BY <2>4, <2>5
<1>9. CASE ScanLeaked(p) \/ Clean(p)
    <2>1. /\ pc[p] \in {"scan", "unlink"} /\ mount' \in {mount, Nothing}
          /\ UNCHANGED <<layout, stored, config, sidecar, ghosts>>
        BY <1>9 DEF ScanLeaked, Clean, ghosts, files
    <2>2. PICK at \in {"unlink", "ended"} : StepsTo(p, at, seen[p])
        BY <1>9 DEF ScanLeaked, Clean, StepsTo, Goto, files, Control, TypeOK
    <2>3. at \in Pcs /\ At(job[p], at) /\ With(job[p], at, seen[p])
        BY <1>1, <2>1 DEF At, With, Pcs
    <2>4. FilesOK'
        BY <2>1, FilesStay DEF ghosts
    <2> QED
        BY <1>2, <2>2, <2>3, <2>4, ControlOfStep
<1> QED
    BY <1>3, <1>4, <1>5, <1>6, <1>7, <1>8, <1>9

\* What happens around the processes moves none of them.
LEMMA OutsideControl ==
    ASSUME Control, Edit \/ AgentLogsIn \/ WipeMount \/ UNCHANGED vars
    PROVE  Control' /\ UNCHANGED <<regime, layout, pc, job, seen>>
<1>1. /\ UNCHANGED <<regime, layout, pc, job, seen>>
      /\ stored' \in [type : Types, login : Logins] \cup {None}
      /\ mount' \in {Nothing, Phantom} \cup {RealOf(l) : l \in Logins}
      /\ config' \in Configs /\ sidecar' \in Records \cup {None}
      /\ alone' \in Processes \cup {None}
    BY FilesTyped, Plain DEF Edit, AgentLogsIn, WipeMount, vars
<1>2. owned' \in BOOLEAN /\ mine' \in BOOLEAN
    <2>1. CASE Edit
        <3>1. PICK c \in Configs : mine' = (c.settings /\ \A p \in Processes : ~Active(p))
            BY <2>1 DEF Edit
        <3> QED
            BY <2>1, <3>1 DEF Edit
    <2>2. CASE AgentLogsIn \/ WipeMount \/ UNCHANGED vars
        BY <2>2, FilesTyped DEF AgentLogsIn, WipeMount, vars, Disturb
    <2> QED
        BY <2>1, <2>2
<1>3. Configs' = Configs
    BY <1>1 DEF Configs
<1> QED
    BY <1>1, <1>2, <1>3 DEF Control, TypeOK, Placed, Holds

\* Every step of a process.
LEMMA StepControl ==
    ASSUME Control, NEW p \in Processes, Step(p) \/ \E kind \in Kinds : Begin(p, kind)
    PROVE  Control' /\ Others(p)
BY BeginControl, ForgetControl, PatchControl, WriteControl, RecordControl, RemoveControl,
   LoginControl DEF Step

\* Every step.
LEMMA NextControl == Control /\ [Next]_vars => Control'
BY StepControl, OutsideControl DEF Next

\* And the beginning.
LEMMA InitControl == Init => Control
<1> SUFFICES ASSUME Init PROVE Control
    OBVIOUS
<1>1. layout \in {"top", "table"}
    BY LayoutAssumption DEF Init
<1>2. TypeOK
    BY <1>1, Plain DEF Init, TypeOK, Seen, Pcs
<1>3. \A p \in Processes : Placed(p) /\ Holds(p)
    BY DEF Init, Placed, Holds, At, With
<1> QED
    BY <1>2, <1>3 DEF Control

\* Spec => []TypeOK: the files of a provider and what the processes know of them keep
\* their types, whatever the file, the jobs and the mishaps.
THEOREM TypeCorrect == Spec => []TypeOK
<1>1. Control => TypeOK
    BY DEF Control
<1> QED
    BY <1>1, InitControl, NextControl, PTL DEF Spec

-----------------------------------------------------------------------------
(* Logins.  A credential is in one hand, and is not stored once it is       *)
(* exposed.                                                                 *)

Fresh ==
    /\ \A p, q \in Processes :
          p # q /\ seen[p].login # None => seen[p].login # seen[q].login
    /\ \A p \in Processes : seen[p].login # None =>
          IF job[p] = "exposed" THEN stored # None => stored.login # seen[p].login
          ELSE mount.login # seen[p].login
    /\ ExposedNotInVault

\* A step that obtains no credential and stores none.
LEMMA FreshOfQuiet ==
    ASSUME Control, Fresh, NEW p \in Processes, Others(p),
           seen'[p].login \in {None, seen[p].login}, job'[p] = job[p] \/ seen'[p].login = None,
           UNCHANGED stored, mount' \in {mount, Nothing, Phantom}
    PROVE  Fresh'
<1>1. \A q \in Processes :
          \/ seen'[q].login = seen[q].login /\ job'[q] = job[q]
          \/ seen'[q].login = None
    BY DEF Others
<1>2. Nothing.login = None /\ Phantom.login = None /\ ~Real(Nothing) /\ ~Real(Phantom)
    BY DEF Nothing, Phantom, Real
<1>3. ExposedNotInVault'
    BY <1>2 DEF Fresh, ExposedNotInVault, Real
<1>4. ASSUME NEW q \in Processes, NEW r \in Processes, q # r, seen'[q].login # None
      PROVE  seen'[q].login # seen'[r].login
    BY <1>1, <1>4 DEF Fresh
<1>5. ASSUME NEW q \in Processes, seen'[q].login # None
      PROVE  IF job'[q] = "exposed" THEN stored # None => stored.login # seen'[q].login
             ELSE mount'.login # seen'[q].login
    BY <1>1, <1>2, <1>5 DEF Fresh
<1> QED
    BY <1>3, <1>4, <1>5 DEF Fresh

\* A login that has been captured is in one hand, and a new one is nowhere yet.
LEMMA FreshStep ==
    ASSUME Control, Fresh, [Next]_vars
    PROVE  Fresh'
<1>1. ASSUME NEW p \in Processes, \E kind \in Kinds : Begin(p, kind) PROVE Fresh'
    <2>1. seen[p] = Unseen /\ UNCHANGED <<seen, stored, mount>>
        BY <1>1 DEF Begin, files, Control, Holds, With
    <2> QED
        BY <1>1, <2>1, StepControl, FreshOfQuiet DEF Unseen
<1>2. ASSUME NEW p \in Processes, Step(p), ~Capture(p), ~StoreCapture(p),
             ~StoreApiKey(p), ~WriteMount(p)
      PROVE  Fresh'
    <2>1. UNCHANGED stored /\ mount' \in {mount, Nothing}
        BY <1>2 DEF Step, ReadType, ReadTypeFails, ReadConfig, Truncate, WriteConfig,
                    TruncateSidecar, RecordManaged, LoadSidecar, CheckConfig, RemoveTruncate,
                    RemoveWrite, DropRecord, KeepRecord, InjectVaultTokens, RefreshVaultRoutes,
                    ScanLeaked, Clean, Exit, Kill, files
    <2>2. seen'[p].login \in {None, seen[p].login}
        <3> USE FilesTyped DEF Unseen, Seen, Control, TypeOK
        <3>1. CASE ReadType(p) \/ ReadTypeFails(p) \/ ReadConfig(p) \/ Truncate(p) \/ WriteConfig(p)
            BY <3>1 DEF ReadType, ReadTypeFails, ReadConfig, Truncate, WriteConfig
        <3>2. CASE TruncateSidecar(p) \/ RecordManaged(p) \/ LoadSidecar(p) \/ CheckConfig(p)
            BY <3>2 DEF TruncateSidecar, RecordManaged, LoadSidecar, CheckConfig
        <3>3. CASE RemoveTruncate(p) \/ RemoveWrite(p) \/ DropRecord(p) \/ KeepRecord(p)
            BY <3>3 DEF RemoveTruncate, RemoveWrite, DropRecord, KeepRecord
        <3>4. CASE InjectVaultTokens(p) \/ RefreshVaultRoutes(p) \/ ScanLeaked(p) \/ Clean(p)
            BY <3>4 DEF InjectVaultTokens, RefreshVaultRoutes, ScanLeaked, Clean
        <3>5. CASE Exit(p) \/ Kill(p)
            BY <3>5 DEF Exit, Kill, Forget
        <3> QED
            BY <1>2, <3>1, <3>2, <3>3, <3>4, <3>5 DEF Step
    <2>3. job'[p] = job[p] \/ seen'[p].login = None
        <3>1. CASE Exit(p) \/ Kill(p)
            BY <3>1 DEF Exit, Kill, Forget, Control, TypeOK, Unseen
        <3>2. CASE UNCHANGED job
            BY <3>2
        <3> QED
            BY <1>2, <3>1, <3>2 DEF Step, ReadType, ReadTypeFails, ReadConfig, Truncate,
                    WriteConfig, TruncateSidecar, RecordManaged, LoadSidecar, CheckConfig,
                    RemoveTruncate, RemoveWrite, DropRecord, KeepRecord, InjectVaultTokens,
                    RefreshVaultRoutes, ScanLeaked, Clean
    <2> QED
        BY <1>2, <2>1, <2>2, <2>3, StepControl, FreshOfQuiet
<1>3. ASSUME NEW p \in Processes, Capture(p) PROVE Fresh'
    <2>1. UNCHANGED <<stored, mount, job>>
        BY <1>3 DEF Capture, files
    <2>2. CASE UNCHANGED seen
        BY <2>1, <2>2 DEF Fresh, ExposedNotInVault, Real
    <2>3. CASE \E l \in Logins : New(l) /\ seen' = [seen EXCEPT ![p].login = l]
        <3>1. PICK l \in Logins : New(l) /\ seen' = [seen EXCEPT ![p].login = l]
            BY <2>3
        <3>2. seen'[p].login = l /\ \A q \in Processes \ {p} : seen'[q] = seen[q]
            BY <3>1 DEF Control, TypeOK
        <3> QED
            BY <2>1, <3>1, <3>2 DEF Fresh, New, ExposedNotInVault, Real
    <2> QED
        BY <1>3, <2>2, <2>3 DEF Capture
<1>4. ASSUME NEW p \in Processes, StoreCapture(p) PROVE Fresh'
    <2>1. /\ pc[p] = "store" /\ job[p] = "oauth" /\ UNCHANGED <<mount, job>>
          /\ \/ stored'.login = seen[p].login /\ UNCHANGED seen
             \/ UNCHANGED stored /\ seen' = [seen EXCEPT ![p] = Unseen]
        BY <1>4 DEF StoreCapture, Control, Placed, At, Patching, Disabling
    <2>2. seen[p].login # None
        BY <2>1 DEF Control, Holds, With
    <2>3. CASE stored'.login = seen[p].login /\ UNCHANGED seen
        BY <2>1, <2>2, <2>3 DEF Fresh, ExposedNotInVault, Real
    <2>4. CASE UNCHANGED stored /\ seen' = [seen EXCEPT ![p] = Unseen]
        <3>1. seen'[p].login = None
            BY <2>4 DEF Control, TypeOK, Unseen
        <3> QED
            BY <1>4, <2>1, <2>4, <3>1, StepControl, FreshOfQuiet DEF Step
    <2> QED
        BY <2>1, <2>3, <2>4
<1>5. ASSUME NEW p \in Processes, StoreApiKey(p) PROVE Fresh'
    <2>1. PICK l \in Logins : New(l) /\ stored' = [type |-> "api_key", login |-> l]
        BY <1>5 DEF StoreApiKey
    <2>2. UNCHANGED <<mount, job, seen>>
        BY <1>5 DEF StoreApiKey
    <2> QED
        BY <2>1, <2>2 DEF Fresh, New, ExposedNotInVault, Real
<1>6. ASSUME NEW p \in Processes, WriteMount(p) PROVE Fresh'
    <2>1. pc[p] = "mount" /\ seen[p].login # None /\ UNCHANGED <<stored, job, seen>>
        BY <1>6 DEF WriteMount, MountWritten, Control, Holds, With
    <2>2. CASE job[p] = "exposed" /\ mount' = RealOf(seen[p].login)
        <3>1. mount'.login = seen[p].login
            BY <2>2 DEF RealOf
        <3> QED
            BY <2>1, <2>2, <3>1 DEF Fresh, ExposedNotInVault, Real
    <2>3. CASE mount' \in {mount, Phantom}
        BY <1>6, <2>1, <2>3, StepControl, FreshOfQuiet DEF Step
    <2> QED
        BY <1>6, <2>2, <2>3 DEF WriteMount, MountWritten
<1>7. ASSUME Edit \/ WipeMount \/ UNCHANGED vars PROVE Fresh'
    <2>1. UNCHANGED <<stored, job, seen>> /\ mount' \in {mount, Nothing}
        BY <1>7 DEF Edit, WipeMount, vars
    <2>2. Nothing.login = None /\ ~Real(Nothing)
        BY DEF Nothing, Real
    <2> QED
        BY <2>1, <2>2 DEF Fresh, ExposedNotInVault, Real
<1>8. ASSUME AgentLogsIn PROVE Fresh'
    <2>1. PICK l \in Logins : New(l) /\ mount' = RealOf(l)
        BY <1>8 DEF AgentLogsIn
    <2>2. mount'.login = l /\ UNCHANGED <<stored, job, seen>>
        BY <1>8, <2>1 DEF AgentLogsIn, RealOf
    <2> QED
        BY <2>1, <2>2 DEF Fresh, New, ExposedNotInVault, Real
<1> QED
    BY <1>1, <1>2, <1>3, <1>4, <1>5, <1>6, <1>7, <1>8 DEF Next, Step

\* Spec => []ExposedNotInVault: no interleaving of logins, captures, failures and logins
\* by agents leaves a credential in the vault that is also in the shared mount.
THEOREM ExposedKeptOut == Spec => []ExposedNotInVault
<1>1. Init => Control /\ Fresh
    BY InitControl DEF Init, Fresh, ExposedNotInVault, Unseen, Nothing, Real
<1>2. Control /\ Fresh /\ [Next]_vars => Control' /\ Fresh'
    BY NextControl, FreshStep
<1>3. Fresh => ExposedNotInVault
    BY DEF Fresh
<1> QED
    BY <1>1, <1>2, <1>3, PTL DEF Spec

-----------------------------------------------------------------------------
(* What the user has in the file.                                           *)

\* The settings are in the file, or in the hands of the only process that writes.
Keeps(at, file) ==
    /\ at = "trunc" => file = config
    /\ at = "write" => file.settings /\ ~file.broken
    /\ at \in {"removeTrunc", "removeWrite"} => file.settings

Lone == \A p, q \in Processes : Active(p) /\ Active(q) => p = q

Sheltered ==
    mine => /\ Lone
            /\ \A p \in Processes : Keeps(pc[p], seen[p].file)
            /\ (\A p \in Processes : pc[p] \notin {"write", "removeWrite"}) => config.settings

\* What a step of the one active process has to keep.
LEMMA ShelteredOfMove ==
    ASSUME Sheltered, NEW p \in Processes, Active(p), Others(p), mine' => mine,
           mine' => Keeps(pc[p], seen[p].file)',
           mine' /\ pc'[p] \notin {"write", "removeWrite"} => config'.settings
    PROVE  Sheltered'
<1>1. ASSUME mine', NEW q \in Processes \ {p} PROVE pc[q] = "idle" /\ pc'[q] = "idle"
    BY <1>1 DEF Sheltered, Lone, Active, Others
<1>2. mine' => Lone'
    BY <1>1 DEF Lone, Active
<1>3. ASSUME mine', NEW q \in Processes PROVE Keeps(pc[q], seen[q].file)'
    BY <1>1, <1>3 DEF Keeps
<1> QED
    BY <1>2, <1>3 DEF Sheltered

\* Only a process that has a job takes a step.
LEMMA StepActive ==
    ASSUME NEW p \in Processes, Step(p)
    PROVE  Active(p)
BY DEF Step, ReadType, ReadTypeFails, ReadConfig, Truncate, WriteConfig,
       TruncateSidecar, RecordManaged, LoadSidecar, CheckConfig, RemoveTruncate,
       RemoveWrite, DropRecord, KeepRecord, InjectVaultTokens, Capture, StoreCapture,
       StoreApiKey, WriteMount, RefreshVaultRoutes, ScanLeaked, Clean, Exit, Kill, Active

\* As long as the settings are owed, whoever writes the file writes them.
LEMMA ShelteredStep ==
    ASSUME Control, Sheltered, [Next]_vars
    PROVE  Sheltered'
<1> USE FilesTyped DEF Goto
<1>1. ASSUME NEW p \in Processes, NEW kind \in Kinds, Begin(p, kind) PROVE Sheltered'
    <2>1. CASE \E q \in Processes : Active(q)
        BY <1>1, <2>1 DEF Begin, Disturb, Sheltered
    <2>2. CASE \A q \in Processes : ~Active(q)
        <3>1. Others(p) /\ pc'[p] = FirstStep[kind] /\ UNCHANGED <<config, mine>>
            BY <1>1, <2>2, BeginControl DEF Begin, Disturb, files, Control, TypeOK
        <3>2. pc'[p] \notin {"trunc", "write", "removeTrunc", "removeWrite"}
            BY <3>1 DEF FirstStep, Kinds
        <3>3. Lone'
            BY <2>2, <3>1 DEF Lone, Active, Others
        <3>4. \A q \in Processes : Keeps(pc[q], seen[q].file)'
            BY <2>2, <3>1, <3>2 DEF Keeps, Active, Others
        <3>5. mine => config.settings
            BY <2>2 DEF Sheltered, Active
        <3> QED
            BY <3>1, <3>3, <3>4, <3>5 DEF Sheltered
    <2> QED
        BY <2>1, <2>2
<1>2. ASSUME NEW p \in Processes, Step(p) PROVE Sheltered'
    <2> USE <1>2
    <2>1. Others(p)
        BY StepControl
    <2>2. Active(p)
        BY StepActive
    <2>3. mine /\ pc[p] \notin {"write", "removeWrite"} => config.settings
        BY <2>2 DEF Sheltered, Lone, Active
    <2>4. mine => Keeps(pc[p], seen[p].file)
        BY DEF Sheltered
    <2>5. CASE ReadConfig(p)
        <3>1. /\ pc[p] = "read" /\ pc'[p] = "trunc" /\ seen'[p].file = config
              /\ UNCHANGED <<config, mine>>
            BY <2>5 DEF ReadConfig, files, ghosts, Control, TypeOK
        <3> QED
            BY <2>1, <2>2, <2>3, <3>1, ShelteredOfMove DEF Keeps
    <2>6. CASE Truncate(p)
        <3>1. /\ pc[p] = "trunc" /\ pc'[p] = "write" /\ seen'[p] = seen[p]
              /\ mine' = (mine /\ ~seen[p].file.broken)
            BY <2>6 DEF Truncate, Control, TypeOK
        <3>2. mine' => mine /\ ~seen[p].file.broken
            BY <3>1
        <3> QED
            BY <2>1, <2>2, <2>3, <2>4, <3>1, <3>2, ShelteredOfMove DEF Keeps
    <2>7. CASE WriteConfig(p)
        <3> DEFINE route == ResolvePatch(seen[p].type)
        <3>1. /\ pc[p] = "write" /\ pc'[p] \in {"ended", "record"} /\ UNCHANGED mine
              /\ config' \in Written(ApplyPatch(seen[p].file, route))
            BY <2>7 DEF WriteConfig, Control, TypeOK
        <3>2. seen[p].file \in Configs /\ seen[p].type \in Types \cup {None}
            BY DEF Seen
        <3>3. config'.settings = ApplyPatch(seen[p].file, route).settings
            BY <3>1, <3>2, PatchTyped, WrittenTyped
        <3>4. mine => ApplyPatch(seen[p].file, route).settings
            BY <2>4, <3>1, <3>2 DEF Keeps, ApplyPatch, Parsed, Configs
        <3> QED
            BY <2>1, <2>2, <3>1, <3>3, <3>4, ShelteredOfMove DEF Keeps
    <2>8. CASE CheckConfig(p)
        <3>1. pc[p] = "check" /\ UNCHANGED <<config, mine>> /\ seen[p].record \in Records
            BY <2>8 DEF CheckConfig, files, ghosts, Control, Holds, With, Seen
        <3>2. RemoveRecords(config, seen[p].record).settings = config.settings
            BY <3>1, RemovalTyped
        <3>3. \/ pc'[p] \in {"keep", "drop"}
              \/ pc'[p] = "removeTrunc" /\ seen'[p].file = RemoveRecords(config, seen[p].record)
            BY <2>8 DEF CheckConfig, Control, TypeOK, Unseen
        <3> QED
            BY <2>1, <2>2, <2>3, <3>1, <3>2, <3>3, ShelteredOfMove DEF Keeps
    <2>9. CASE RemoveTruncate(p)
        <3>1. /\ pc[p] = "removeTrunc" /\ pc'[p] = "removeWrite" /\ seen'[p] = seen[p]
              /\ UNCHANGED mine
            BY <2>9 DEF RemoveTruncate, ghosts, Control, TypeOK
        <3> QED
            BY <2>1, <2>2, <2>4, <3>1, ShelteredOfMove DEF Keeps
    <2>10. CASE RemoveWrite(p)
        <3>1. /\ pc[p] = "removeWrite" /\ pc'[p] = "drop" /\ UNCHANGED mine
              /\ config' \in Written(seen[p].file) /\ seen[p].file \in Configs
            BY <2>10 DEF RemoveWrite, ghosts, Control, TypeOK, Seen
        <3>2. config'.settings = seen[p].file.settings
            BY <3>1, WrittenTyped
        <3> QED
            BY <2>1, <2>2, <2>4, <3>1, <3>2, ShelteredOfMove DEF Keeps
    <2>11. CASE Exit(p) \/ Kill(p)
        <3>1. pc'[p] = "idle" /\ UNCHANGED config
            BY <2>11 DEF Exit, Kill, Forget, files, Control, TypeOK
        <3>2. mine' => mine /\ pc[p] \notin {"write", "removeWrite"}
            BY <2>11 DEF Exit, Kill
        <3> QED
            BY <2>1, <2>2, <2>3, <3>1, <3>2, ShelteredOfMove DEF Keeps
    <2>12. CASE \/ ReadType(p) \/ ReadTypeFails(p) \/ TruncateSidecar(p) \/ RecordManaged(p)
                \/ LoadSidecar(p) \/ DropRecord(p) \/ KeepRecord(p)
        <3>1. /\ UNCHANGED <<config, mine>> /\ pc[p] \notin {"write", "removeWrite"}
              /\ pc'[p] \notin {"trunc", "write", "removeTrunc", "removeWrite"}
            BY <2>12 DEF ReadType, ReadTypeFails, TruncateSidecar, RecordManaged, LoadSidecar,
                         DropRecord, KeepRecord, files, ghosts, Control, TypeOK
        <3> QED
            BY <2>1, <2>2, <2>3, <3>1, ShelteredOfMove DEF Keeps
    <2>13. CASE \/ InjectVaultTokens(p) \/ Capture(p) \/ StoreCapture(p) \/ StoreApiKey(p)
                \/ WriteMount(p) \/ RefreshVaultRoutes(p) \/ ScanLeaked(p) \/ Clean(p)
        <3>1. /\ UNCHANGED <<config, mine>> /\ pc[p] \notin {"write", "removeWrite"}
              /\ pc'[p] \notin {"trunc", "write", "removeTrunc", "removeWrite"}
            BY <2>13 DEF InjectVaultTokens, Capture, StoreCapture, StoreApiKey, WriteMount,
                         RefreshVaultRoutes, ScanLeaked, Clean, files, ghosts, Control, TypeOK
        <3> QED
            BY <2>1, <2>2, <2>3, <3>1, ShelteredOfMove DEF Keeps
    <2> QED
        BY <2>5, <2>6, <2>7, <2>8, <2>9, <2>10, <2>11, <2>12, <2>13 DEF Step
<1>3. ASSUME Edit PROVE Sheltered'
    <2>1. PICK c \in Configs :
             config' = c /\ mine' = (c.settings /\ \A p \in Processes : ~Active(p))
        BY <1>3 DEF Edit
    <2>2. mine' => config'.settings /\ \A p \in Processes : pc'[p] = "idle"
        BY <1>3, <2>1 DEF Edit, Active
    <2> QED
        BY <2>2 DEF Sheltered, Lone, Active, Keeps
<1>4. ASSUME AgentLogsIn \/ UNCHANGED vars PROVE Sheltered'
    <2>1. UNCHANGED <<pc, seen, config>> /\ (mine' => mine)
        BY <1>4 DEF AgentLogsIn, Disturb, vars
    <2> QED
        BY <2>1 DEF Sheltered, Lone, Active, Keeps
<1>5. ASSUME WipeMount PROVE Sheltered'
    BY <1>5 DEF WipeMount, Sheltered
<1> QED
    BY <1>1, <1>2, <1>3, <1>4, <1>5 DEF Next

\* Spec => []UserSettingsKept: no launch and no login loses a setting of the user's,
\* whatever has gone wrong before, as long as the file parses and nobody else writes.
THEOREM SettingsKept == Spec => []UserSettingsKept
<1>1. Init => Control /\ Sheltered
    BY InitControl DEF Init, Sheltered
<1>2. Control /\ Sheltered /\ [Next]_vars => Control' /\ Sheltered'
    BY NextControl, ShelteredStep
<1>3. Sheltered => UserSettingsKept
    BY DEF Sheltered, UserSettingsKept
<1> QED
    BY <1>1, <1>2, <1>3, PTL DEF Spec

-----------------------------------------------------------------------------
(* A launch that nothing disturbs.                                          *)

StoredType == IF stored = None THEN None ELSE stored.type

\* What such a launch has achieved at each of its steps.
Enabling(at, found) ==
    /\ at \in {"read", "trunc", "write"} => found.type = StoredType
    /\ at = "write" => config = Blank
    /\ at \in {"record", "recordWrite", "inject", "ended"} =>
          ~config.broken /\ config.route = ResolvePatch(StoredType)
    /\ at \in {"record", "recordWrite"} => found.record.route = config.route
    /\ at = "recordWrite" => sidecar = None
    /\ at \in {"inject", "ended"} => sidecar # None /\ sidecar.route = config.route
    /\ at = "ended" => found.type \in {None, StoredType}

Stage(p) ==
    /\ job[p] = "enable" => Enabling(pc[p], seen[p])
    /\ job[p] = "disable" /\ pc[p] = "removeTrunc" /\ config.route = "own" =>
          seen[p].file.route = "own"

Undisturbed ==
    \A p \in Processes : alone = p =>
        Stage(p) /\ \A q \in Processes \ {p} : ~Active(q)

\* What a step has to keep so that a launch goes on undisturbed.
LEMMA UndisturbedOfMove ==
    ASSUME Undisturbed, NEW p \in Processes, Active(p), Others(p), alone' \in {alone, None},
           alone = p /\ alone' = p => Stage(p)'
    PROVE  Undisturbed'
BY NoneAssumption DEF Undisturbed, Active, Others

\* A launch that enables reaches its next stage.
LEMMA StageEnable ==
    ASSUME Control, NEW p \in Processes, Stage(p), job[p] = "enable",
           \/ ReadType(p) \/ ReadConfig(p) \/ Truncate(p) \/ WriteConfig(p)
           \/ TruncateSidecar(p) \/ RecordManaged(p) \/ InjectVaultTokens(p)
    PROVE  Stage(p)' /\ UNCHANGED alone
<1> USE FilesTyped DEF Goto, files, ghosts, Stage
<1>1. Enabling(pc[p], seen[p])
    OBVIOUS
<1>2. CASE ReadType(p)
    <2>1. /\ pc'[p] = "read" /\ seen'[p].type = StoredType /\ UNCHANGED <<files, job, ghosts>>
        BY <1>2 DEF ReadType, Control, TypeOK, StoredType
    <2> QED
        BY <2>1 DEF Enabling, StoredType
<1>3. CASE ReadConfig(p)
    <2>1. /\ pc[p] = "read" /\ pc'[p] = "trunc" /\ seen'[p].type = seen[p].type
          /\ UNCHANGED <<files, job, ghosts>>
        BY <1>3 DEF ReadConfig, Control, TypeOK
    <2> QED
        BY <1>1, <2>1 DEF Enabling, StoredType
<1>4. CASE Truncate(p)
    <2>1. /\ pc[p] = "trunc" /\ pc'[p] = "write" /\ seen'[p] = seen[p] /\ config' = Blank
          /\ UNCHANGED <<stored, job, alone>>
        BY <1>4 DEF Truncate, Control, TypeOK
    <2> QED
        BY <1>1, <2>1 DEF Enabling, StoredType
<1>5. CASE WriteConfig(p)
    <2> DEFINE file  == seen[p].file
               route == ResolvePatch(seen[p].type)
               left  == ApplyPatch(file, route)
    <2>1. /\ pc[p] = "write" /\ pc'[p] = "record" /\ config' \in Written(left)
          /\ seen'[p] = [Unseen EXCEPT !.record = Ownership(file, route)]
          /\ UNCHANGED <<layout, stored, job, alone>>
        BY <1>5 DEF WriteConfig, IsLogin, Control, TypeOK
    <2>2. config = Blank /\ route = ResolvePatch(StoredType)
        BY <1>1, <2>1 DEF Enabling
    <2>3. config' = left
        BY <2>1, <2>2 DEF Written
    <2>4. file \in Configs
        BY DEF Seen
    <2>5. left.route = route /\ ~left.broken
        BY <2>4 DEF ApplyPatch, Parsed, Blank, Configs
    <2>6. seen'[p].record.route = route
        BY <2>1 DEF Ownership, Unseen
    <2>7. (ResolvePatch(StoredType))' = ResolvePatch(StoredType)
        BY <2>1 DEF ResolvePatch, StoredType
    <2> HIDE DEF left, route
    <2> QED
        BY <2>1, <2>2, <2>3, <2>5, <2>6, <2>7 DEF Enabling
<1>6. CASE TruncateSidecar(p)
    <2>1. /\ pc[p] = "record" /\ pc'[p] = "recordWrite" /\ seen'[p] = seen[p] /\ sidecar' = None
          /\ UNCHANGED <<layout, stored, config, job, alone>>
        BY <1>6 DEF TruncateSidecar, Control, TypeOK
    <2> QED
        BY <1>1, <2>1 DEF Enabling, StoredType, ResolvePatch
<1>7. CASE RecordManaged(p)
    <2>1. /\ pc[p] = "recordWrite" /\ pc'[p] = "inject" /\ seen'[p] = seen[p]
          /\ sidecar' \in WrittenSidecar(seen[p].record)
          /\ UNCHANGED <<layout, stored, config, job, alone>>
        BY <1>7 DEF RecordManaged, Control, TypeOK
    <2>2. sidecar' = seen[p].record /\ seen[p].record # None
        BY <1>1, <2>1 DEF Enabling, WrittenSidecar, Control, Holds, With
    <2> QED
        BY <1>1, <2>1, <2>2 DEF Enabling, StoredType, ResolvePatch
<1>8. CASE InjectVaultTokens(p)
    <2>1. /\ pc[p] = "inject" /\ pc'[p] = "ended" /\ UNCHANGED <<files, job, alone>>
        BY <1>8 DEF InjectVaultTokens, Control, TypeOK
    <2>2. seen'[p].type \in {None, StoredType}
        BY <1>8 DEF InjectVaultTokens, Control, TypeOK, StoredType, Unseen
    <2> QED
        BY <1>1, <2>1, <2>2 DEF Enabling, StoredType, ResolvePatch
<1> QED
    BY <1>2, <1>3, <1>4, <1>5, <1>6, <1>7, <1>8

\* So does one that disables.
LEMMA StageDisable ==
    ASSUME Control, NEW p \in Processes, Stage(p), job[p] = "disable",
           \/ LoadSidecar(p) \/ CheckConfig(p) \/ RemoveTruncate(p) \/ RemoveWrite(p)
           \/ DropRecord(p) \/ KeepRecord(p) \/ InjectVaultTokens(p)
    PROVE  Stage(p)' /\ UNCHANGED alone
<1> USE FilesTyped DEF Goto, files, ghosts, Stage
<1>1. CASE CheckConfig(p)
    <2>1. pc[p] = "check" /\ UNCHANGED <<config, job, alone>> /\ seen[p].record \in Records
        BY <1>1 DEF CheckConfig, Control, Holds, With, Seen
    <2>2. pc'[p] = "removeTrunc" => seen'[p].file = RemoveRecords(config, seen[p].record)
        BY <1>1 DEF CheckConfig, Control, TypeOK, Unseen
    <2>3. pc'[p] \in {"keep", "drop", "removeTrunc"}
        BY <1>1 DEF CheckConfig, Control, TypeOK
    <2>4. config.route = "own" => RemoveRecords(config, seen[p].record).route = "own"
        BY <2>1, RemovalKeeps
    <2> QED
        BY <2>1, <2>2, <2>3, <2>4
<1>2. CASE RemoveTruncate(p)
    <2>1. pc'[p] = "removeWrite" /\ UNCHANGED <<job, alone>>
        BY <1>2 DEF RemoveTruncate, Control, TypeOK
    <2> QED
        BY <2>1
<1>3. CASE \/ LoadSidecar(p) \/ DropRecord(p) \/ KeepRecord(p)
           \/ InjectVaultTokens(p) \/ RemoveWrite(p)
    <2>1. pc'[p] \notin {"removeTrunc", "removeWrite"} /\ UNCHANGED <<job, alone>>
        BY <1>3 DEF LoadSidecar, DropRecord, KeepRecord, InjectVaultTokens, RemoveWrite,
                    Control, TypeOK
    <2> QED
        BY <2>1
<1> QED
    BY <1>1, <1>2, <1>3

\* A step of another process ends the undisturbed stretch; one of its own goes on.
LEMMA UndisturbedStep ==
    ASSUME Control, Undisturbed, [Next]_vars
    PROVE  Undisturbed'
<1>1. ASSUME NEW p \in Processes, NEW kind \in Kinds, Begin(p, kind) PROVE Undisturbed'
    <2>1. Others(p) /\ pc'[p] = FirstStep[kind] /\ job'[p] = kind
        BY <1>1, BeginControl DEF Begin, Goto, Control, TypeOK
    <2>2. alone' = IF \E q \in Processes : Active(q) THEN None ELSE p
        BY <1>1 DEF Begin
    <2>3. Stage(p)'
        BY <2>1 DEF Stage, Enabling, FirstStep, Kinds
    <2> QED
        BY <2>1, <2>2, <2>3, NoneAssumption DEF Undisturbed, Active, Others
<1>2. ASSUME NEW p \in Processes, Step(p) PROVE Undisturbed'
    <2> USE <1>2
    <2>1. Others(p) /\ Active(p) /\ Placed(p)
        BY StepControl, StepActive DEF Control
    <2>2. CASE job[p] = "enable" /\
               \/ ReadType(p) \/ ReadConfig(p) \/ Truncate(p) \/ WriteConfig(p)
               \/ TruncateSidecar(p) \/ RecordManaged(p) \/ InjectVaultTokens(p)
        <3>1. alone' = alone
            BY <2>2 DEF ReadType, ReadConfig, Truncate, WriteConfig, TruncateSidecar,
                        RecordManaged, InjectVaultTokens, ghosts
        <3>2. alone = p => Stage(p)'
            BY <2>2, StageEnable DEF Undisturbed
        <3> QED
            BY <2>1, <3>1, <3>2, UndisturbedOfMove
    <2>3. CASE job[p] = "disable" /\
               \/ LoadSidecar(p) \/ CheckConfig(p) \/ RemoveTruncate(p) \/ RemoveWrite(p)
               \/ DropRecord(p) \/ KeepRecord(p) \/ InjectVaultTokens(p)
        <3>1. alone' = alone
            BY <2>3 DEF LoadSidecar, CheckConfig, RemoveTruncate, RemoveWrite, DropRecord,
                        KeepRecord, InjectVaultTokens, ghosts
        <3>2. alone = p => Stage(p)'
            BY <2>3, StageDisable DEF Undisturbed
        <3> QED
            BY <2>1, <3>1, <3>2, UndisturbedOfMove
    <2>4. CASE Exit(p) \/ Kill(p) \/ ReadTypeFails(p)
        <3>1. alone' = IF alone = p THEN None ELSE alone
            BY <2>4 DEF Exit, Kill, Forget, ReadTypeFails
        <3> QED
            BY <2>1, <3>1, NoneAssumption, UndisturbedOfMove
    <2>5. CASE job[p] \notin {"enable", "disable"} /\ UNCHANGED <<job, alone>>
        <3>1. Stage(p)'
            BY <2>5 DEF Stage
        <3> QED
            BY <2>1, <2>5, <3>1, UndisturbedOfMove
    <2>6. CASE \/ ReadType(p) \/ ReadConfig(p) \/ Truncate(p) \/ WriteConfig(p)
               \/ TruncateSidecar(p) \/ RecordManaged(p)
        <3>1. UNCHANGED <<job, alone>> /\ job[p] # "disable"
            BY <2>1, <2>6 DEF ReadType, ReadConfig, Truncate, WriteConfig, TruncateSidecar,
                        RecordManaged, ghosts, Placed, At, Patching, Disabling
        <3> QED
            BY <2>2, <2>5, <2>6, <3>1
    <2>7. CASE \/ LoadSidecar(p) \/ CheckConfig(p) \/ RemoveTruncate(p) \/ RemoveWrite(p)
               \/ DropRecord(p) \/ KeepRecord(p)
        <3>1. job[p] = "disable"
            BY <2>1, <2>7 DEF LoadSidecar, CheckConfig, RemoveTruncate, RemoveWrite, DropRecord,
                        KeepRecord, Placed, At, Patching, Disabling
        <3> QED
            BY <2>3, <2>7, <3>1
    <2>8. CASE InjectVaultTokens(p)
        <3>1. job[p] \in {"enable", "disable"}
            BY <2>1, <2>8 DEF InjectVaultTokens, Placed, At, Patching, Disabling
        <3> QED
            BY <2>2, <2>3, <2>8, <3>1
    <2>9. CASE \/ Capture(p) \/ StoreCapture(p) \/ StoreApiKey(p) \/ WriteMount(p)
               \/ RefreshVaultRoutes(p) \/ ScanLeaked(p) \/ Clean(p)
        <3>1. UNCHANGED <<job, alone>> /\ job[p] \notin {"enable", "disable"}
            BY <2>1, <2>9 DEF Capture, StoreCapture, StoreApiKey, WriteMount, RefreshVaultRoutes,
                        ScanLeaked, Clean, ghosts, Placed, At, Patching, Disabling
        <3> QED
            BY <2>5, <3>1
    <2> QED
        BY <2>4, <2>6, <2>7, <2>8, <2>9 DEF Step
<1>3. ASSUME Edit \/ AgentLogsIn \/ WipeMount PROVE Undisturbed'
    BY <1>3, NoneAssumption DEF Edit, AgentLogsIn, WipeMount, Undisturbed
<1>4. ASSUME UNCHANGED vars PROVE Undisturbed'
    BY <1>4 DEF vars, Undisturbed, Stage, Enabling, StoredType, ResolvePatch, Active
<1> QED
    BY <1>1, <1>2, <1>3, <1>4 DEF Next

\* Nobody has begun.
LEMMA InitUndisturbed == Init => Undisturbed
BY NoneAssumption DEF Init, Undisturbed

\* Spec => []RoutedAfterLaunch: a launch that runs by itself routes the file to the stored
\* credential and owns what it wrote, whatever was left behind by others before it.
THEOREM LaunchRoutes == Spec => []RoutedAfterLaunch
<1>1. ASSUME Control, Undisturbed, NEW p \in Processes, EndsAlone(p, "enable")
      PROVE  /\ ~config.broken /\ sidecar # None /\ sidecar.route = config.route
             /\ config.route = ResolvePatch(IF stored = None THEN None ELSE stored.type)
             /\ seen[p].type # None /\ layout = "top" => seen[p].type = config.route
    <2>1. Enabling("ended", seen[p])
        BY <1>1 DEF EndsAlone, Undisturbed, Stage
    <2> QED
        BY <2>1 DEF Enabling, StoredType, ResolvePatch
<1>2. Control /\ Undisturbed => RoutedAfterLaunch
    BY <1>1 DEF RoutedAfterLaunch
<1>3. Control /\ Undisturbed /\ [Next]_vars => Control' /\ Undisturbed'
    BY NextControl, UndisturbedStep
<1> QED
    BY <1>2, <1>3, InitControl, InitUndisturbed, PTL DEF Spec

\* Spec => UserRouteSurvivesDisable: such a launch that disables the provider writes a
\* value that the user has set back with the rest, or leaves the file alone.
THEOREM UserRouteKept == Spec => UserRouteSurvivesDisable
<1> DEFINE Kept(p) ==
        job[p] = "disable" /\ alone = p /\ pc' # pc /\ InHand(p) = "own" =>
            InHand(p)' = "own" \/ (pc[p] = "removeWrite" /\ pc'[p] = "idle")
<1>1. ASSUME Control, Undisturbed, [Next]_vars, NEW p \in Processes,
             job[p] = "disable", alone = p, pc' # pc, InHand(p) = "own"
      PROVE  InHand(p)' = "own" \/ (pc[p] = "removeWrite" /\ pc'[p] = "idle")
    <2> USE FilesTyped DEF Goto, InHand
    <2>1. CASE Edit \/ AgentLogsIn \/ WipeMount \/ UNCHANGED vars
        BY <1>1, <2>1 DEF Edit, AgentLogsIn, WipeMount, vars
    <2>2. ASSUME NEW q \in Processes, NEW kind \in Kinds, Begin(q, kind)
          PROVE  InHand(p)' = "own"
        <3>1. Placed(p) /\ None # "disable"
            BY <1>1, NoneAssumption DEF Control, Kinds
        <3>2. q # p
            BY <1>1, <2>2, <3>1 DEF Begin, Placed, At, Disabling
        <3> QED
            BY <1>1, <2>2, <3>2 DEF Begin, files, Control, TypeOK
    <2>3. CASE \E q \in Processes : Step(q)
        <3>1. Step(p) /\ Stage(p) /\ Placed(p)
            BY <1>1, <2>3, StepActive DEF Undisturbed, Control
        <3>2. CASE RemoveTruncate(p)
            BY <1>1, <3>1, <3>2 DEF RemoveTruncate, Stage, Control, TypeOK
        <3>3. CASE RemoveWrite(p)
            <4>1. /\ pc[p] = "removeWrite" /\ pc'[p] = "drop"
                  /\ config' \in Written(seen[p].file)
                BY <1>1, <3>3 DEF RemoveWrite, Control, TypeOK
            <4>2. seen[p].file \in Configs
                BY <1>1 DEF Seen
            <4>3. config'.route = seen[p].file.route
                BY <4>1, <4>2, WrittenTyped
            <4> QED
                BY <1>1, <4>1, <4>3
        <3>4. CASE Kill(p) \/ Exit(p)
            BY <1>1, <3>4 DEF Kill, Exit, Forget, files, Control, TypeOK
        <3>5. CASE \/ LoadSidecar(p) \/ CheckConfig(p) \/ DropRecord(p) \/ KeepRecord(p)
                   \/ InjectVaultTokens(p)
            <4>1. UNCHANGED config /\ pc[p] # "removeWrite" /\ pc'[p] # "removeWrite"
                BY <1>1, <3>5 DEF LoadSidecar, CheckConfig, DropRecord, KeepRecord,
                            InjectVaultTokens, files, Control, TypeOK
            <4> QED
                BY <1>1, <4>1
        <3>6. pc[p] \in Disabling \cup {"inject", "ended"}
            BY <1>1, <3>1, NoneAssumption DEF Placed, At, Kinds
        <3> QED
            BY <3>1, <3>2, <3>3, <3>4, <3>5, <3>6 DEF Step, ReadType, ReadTypeFails, ReadConfig,
                   Truncate, WriteConfig, TruncateSidecar, RecordManaged, Capture, StoreCapture,
                   StoreApiKey, WriteMount, RefreshVaultRoutes, ScanLeaked, Clean, Disabling
    <2> QED
        BY <1>1, <2>1, <2>2, <2>3 DEF Next
<1>2. Control /\ Undisturbed /\ [Next]_vars => [\A p \in Processes : Kept(p)]_vars
    BY <1>1
<1>3. Control /\ Undisturbed /\ [Next]_vars => Control' /\ Undisturbed'
    BY NextControl, UndisturbedStep
<1> QED
    BY <1>2, <1>3, InitControl, InitUndisturbed, PTL DEF Spec, UserRouteSurvivesDisable

-----------------------------------------------------------------------------
(* The route of an undisturbed launch, until the provider is disabled.      *)

\* The route of a launch is on record, or in the hands of the process that disables it.
Recorded(record) == config.route \in Types => record # None /\ record.route = config.route

Removing(kind, at, found) ==
    /\ at \notin {"record", "recordWrite"}
    /\ at = "check" => found.record = sidecar
    /\ at = "keep" => found.record = sidecar /\ config.broken
    /\ at = "rewrite" => Recorded(found.record) /\ config.broken /\ sidecar = None
    /\ at \in {"removeTrunc", "removeWrite"} => found.file.route \notin Types
    /\ at = "drop" => config.route \notin Types
    /\ kind = "disable" /\ at \in {"inject", "ended"} => config.route \notin Types \/ config.broken

Owned ==
    owned => /\ Lone
             /\ \A p \in Processes : Removing(job[p], pc[p], seen[p])
             /\ (\A p \in Processes : pc[p] # "rewrite") => Recorded(sidecar)

\* What a step has to keep so that the route stays on record.
LEMMA OwnedOfMove ==
    ASSUME Owned, NEW p \in Processes, Active(p), Others(p), owned' => owned,
           owned' => Removing(job[p], pc[p], seen[p])',
           owned' /\ pc'[p] # "rewrite" => Recorded(sidecar)'
    PROVE  Owned'
<1>1. ASSUME owned', NEW q \in Processes \ {p} PROVE pc[q] = "idle" /\ pc'[q] = "idle"
    BY <1>1 DEF Owned, Lone, Active, Others
<1>2. owned' => Lone'
    BY <1>1 DEF Lone, Active
<1>3. ASSUME owned', NEW q \in Processes \ {p} PROVE Removing(job[q], pc[q], seen[q])'
    <2>1. pc'[q] = "idle"
        BY <1>1, <1>3
    <2> QED
        BY <2>1 DEF Removing
<1> QED
    BY <1>2, <1>3 DEF Owned

\* The record follows the route, and a removal takes the route of the record.
LEMMA OwnedStep ==
    ASSUME Control, Owned, Undisturbed, [Next]_vars
    PROVE  Owned'
<1> USE FilesTyped DEF Goto
<1>1. ASSUME NEW p \in Processes, NEW kind \in Kinds, Begin(p, kind) PROVE Owned'
    <2>1. CASE \E q \in Processes : Active(q)
        BY <1>1, <2>1 DEF Begin, Disturb, Owned
    <2>2. CASE \A q \in Processes : ~Active(q)
        <3>1. /\ Others(p) /\ pc'[p] = FirstStep[kind]
              /\ UNCHANGED <<config, sidecar, owned>>
            BY <1>1, <2>2, BeginControl DEF Begin, Disturb, files, Control, TypeOK
        <3>2. pc'[p] \in {"type", "load", "store", "capture", "scan"}
            BY <3>1 DEF FirstStep, Kinds
        <3>3. Lone'
            BY <2>2, <3>1 DEF Lone, Active, Others
        <3>4. Removing(job[p], pc[p], seen[p])'
            BY <3>2 DEF Removing
        <3>5. ASSUME NEW q \in Processes \ {p} PROVE Removing(job[q], pc[q], seen[q])'
            <4>1. pc'[q] = "idle"
                BY <2>2, <3>1 DEF Active, Others
            <4> QED
                BY <4>1 DEF Removing
        <3>6. owned => Recorded(sidecar)
            BY <2>2 DEF Owned, Active
        <3> QED
            BY <3>1, <3>3, <3>4, <3>5, <3>6 DEF Owned, Recorded
    <2> QED
        BY <2>1, <2>2
<1>2. ASSUME NEW p \in Processes, Step(p) PROVE Owned'
    <2> USE <1>2
    <2>1. Others(p) /\ Active(p) /\ Placed(p) /\ Holds(p)
        BY StepControl, StepActive DEF Control
    <2>2. owned /\ pc[p] # "rewrite" => Recorded(sidecar)
        BY <2>1 DEF Owned, Lone, Active
    <2>3. owned => Removing(job[p], pc[p], seen[p])
        BY DEF Owned
    <2>4. CASE WriteConfig(p)
        BY <2>4 DEF WriteConfig, Owned
    <2>5. CASE Truncate(p)
        <3>1. pc'[p] = "write" /\ config' = Blank /\ UNCHANGED owned
            BY <2>5 DEF Truncate, Control, TypeOK
        <3>2. Recorded(sidecar)'
            BY <3>1, NoneAssumption DEF Recorded, Blank
        <3> QED
            BY <2>1, <3>1, <3>2, OwnedOfMove DEF Removing
    <2>6. CASE TruncateSidecar(p) \/ RecordManaged(p)
        <3>1. pc[p] \in {"record", "recordWrite"} /\ UNCHANGED owned
            BY <2>6 DEF TruncateSidecar, RecordManaged, ghosts
        <3>2. ~owned
            BY <2>3, <3>1 DEF Removing
        <3> QED
            BY <3>1, <3>2 DEF Owned
    <2>7. CASE LoadSidecar(p)
        <3>1. /\ pc[p] = "load" /\ seen'[p].record = sidecar
              /\ pc'[p] = IF sidecar = None THEN "drop" ELSE "check"
              /\ UNCHANGED <<config, sidecar, owned>>
            BY <2>7 DEF LoadSidecar, files, ghosts, Control, TypeOK
        <3> QED
            BY <2>1, <2>2, <3>1, OwnedOfMove DEF Removing, Recorded
    <2>8. CASE CheckConfig(p)
        <3> DEFINE left == RemoveRecords(config, seen[p].record)
        <3>1. pc[p] = "check" /\ UNCHANGED <<config, sidecar, owned>> /\ seen[p].record \in Records
            BY <2>1, <2>8 DEF CheckConfig, files, ghosts, Holds, With, Seen
        <3>2. owned => seen[p].record = sidecar /\ Recorded(sidecar)
            BY <2>2, <2>3, <3>1 DEF Removing
        <3>3. owned => left.route \notin Types
            BY <3>1, <3>2, NoneAssumption DEF Recorded, RemoveRecords, Without, Configs, Records,
                                              Types
        <3>4. \/ pc'[p] = "keep" /\ config.broken /\ seen'[p] = seen[p]
              \/ pc'[p] = "drop" /\ left = config
              \/ pc'[p] = "removeTrunc" /\ seen'[p].file = left
            BY <2>8 DEF CheckConfig, Control, TypeOK, Unseen
        <3> HIDE DEF left
        <3>5. owned' => Removing(job[p], pc[p], seen[p])'
            BY <3>1, <3>2, <3>3, <3>4 DEF Removing
        <3> QED
            BY <2>1, <3>1, <3>2, <3>5, OwnedOfMove DEF Recorded
    <2>9. CASE RemoveTruncate(p)
        <3>1. /\ pc[p] = "removeTrunc" /\ pc'[p] = "removeWrite" /\ seen'[p] = seen[p]
              /\ config' = Blank /\ UNCHANGED owned
            BY <2>9 DEF RemoveTruncate, ghosts, Control, TypeOK
        <3>2. Recorded(sidecar)'
            BY <3>1, NoneAssumption DEF Recorded, Blank
        <3> QED
            BY <2>1, <2>3, <3>1, <3>2, OwnedOfMove DEF Removing
    <2>10. CASE RemoveWrite(p)
        <3>1. /\ pc[p] = "removeWrite" /\ pc'[p] = "drop" /\ UNCHANGED owned
              /\ config' \in Written(seen[p].file) /\ seen[p].file \in Configs
            BY <2>10 DEF RemoveWrite, ghosts, Control, TypeOK, Seen
        <3>2. owned => config'.route \notin Types
            BY <2>3, <3>1, WrittenTyped DEF Removing
        <3> QED
            BY <2>1, <3>1, <3>2, OwnedOfMove DEF Removing, Recorded
    <2>11. CASE DropRecord(p)
        <3>1. /\ pc[p] = "drop" /\ pc'[p] = "inject" /\ UNCHANGED <<config, owned>>
            BY <2>11 DEF DropRecord, ghosts, Control, TypeOK
        <3>2. owned => config.route \notin Types
            BY <2>3, <3>1 DEF Removing
        <3> QED
            BY <2>1, <3>1, <3>2, OwnedOfMove DEF Removing, Recorded
    <2>12. CASE KeepRecord(p)
        <3>1. UNCHANGED <<config, owned>> /\ seen'[p] = seen[p]
            BY <2>12 DEF KeepRecord, ghosts, Control, TypeOK
        <3>2. CASE pc[p] = "keep" /\ sidecar' = None /\ pc'[p] = "rewrite"
            <4>1. owned => Recorded(seen[p].record) /\ config.broken
                BY <2>2, <2>3, <3>2 DEF Removing
            <4> QED
                BY <2>1, <3>1, <3>2, <4>1, OwnedOfMove DEF Removing, Recorded
        <3>3. CASE /\ pc[p] = "rewrite" /\ sidecar' \in WrittenSidecar(seen[p].record)
                   /\ pc'[p] = "inject"
            <4>1. owned => Recorded(seen[p].record) /\ config.broken /\ sidecar = None
                BY <2>3, <3>3 DEF Removing
            <4>2. owned => sidecar' = seen[p].record
                BY <3>3, <4>1 DEF WrittenSidecar
            <4> QED
                BY <2>1, <3>1, <3>3, <4>1, <4>2, OwnedOfMove DEF Removing, Recorded
        <3> QED
            BY <2>12, <3>2, <3>3 DEF KeepRecord, Control, TypeOK
    <2>13. CASE InjectVaultTokens(p)
        <3>1. pc[p] = "inject" /\ pc'[p] = "ended" /\ UNCHANGED <<config, sidecar, job>>
            BY <2>13 DEF InjectVaultTokens, files, Control, TypeOK
        <3>2. owned' => owned \/ (job[p] = "enable" /\ alone = p)
            BY <2>13 DEF InjectVaultTokens
        <3>3. CASE owned
            <4>1. Removing(job[p], pc[p], seen[p])'
                BY <2>3, <3>1, <3>3 DEF Removing
            <4> QED
                BY <2>1, <2>2, <3>1, <3>3, <4>1, OwnedOfMove DEF Recorded
        <3>4. CASE job[p] = "enable" /\ alone = p
            <4>1. sidecar # None /\ sidecar.route = config.route
                BY <3>1, <3>4 DEF Undisturbed, Stage, Enabling
            <4>2. ASSUME NEW q \in Processes \ {p} PROVE pc'[q] = "idle"
                BY <2>1, <3>4 DEF Undisturbed, Active, Others
            <4>3. Lone'
                BY <4>2 DEF Lone, Active
            <4>4. \A q \in Processes : Removing(job[q], pc[q], seen[q])'
                BY <3>1, <3>4, <4>2 DEF Removing
            <4> QED
                BY <3>1, <4>1, <4>3, <4>4 DEF Owned, Recorded
        <3>5. CASE ~owned'
            BY <3>5 DEF Owned
        <3> QED
            BY <3>2, <3>3, <3>4, <3>5
    <2>14. CASE Exit(p) \/ Kill(p)
        <3>1. pc'[p] = "idle" /\ UNCHANGED <<config, sidecar>>
            BY <2>14 DEF Exit, Kill, Forget, files, Control, TypeOK
        <3>2. owned' => owned /\ pc[p] # "rewrite"
            BY <2>14 DEF Exit, Kill
        <3> QED
            BY <2>1, <2>2, <3>1, <3>2, OwnedOfMove DEF Removing, Recorded
    <2>15. CASE ReadType(p) \/ ReadTypeFails(p) \/ ReadConfig(p)
        <3>1. /\ UNCHANGED <<config, sidecar, owned>> /\ pc[p] # "rewrite"
              /\ pc'[p] \in {"read", "trunc"}
            BY <2>15 DEF ReadType, ReadTypeFails, ReadConfig, files, ghosts, Control, TypeOK
        <3> QED
            BY <2>1, <2>2, <3>1, OwnedOfMove DEF Removing, Recorded
    <2>16. CASE \/ Capture(p) \/ StoreCapture(p) \/ StoreApiKey(p) \/ WriteMount(p)
                \/ RefreshVaultRoutes(p) \/ ScanLeaked(p) \/ Clean(p)
        <3>1. /\ UNCHANGED <<config, sidecar, owned, job>> /\ pc[p] # "rewrite"
              /\ pc'[p] \in {"mount", "store", "ended", "type", "routes", "unlink"}
            BY <2>16 DEF Capture, StoreCapture, StoreApiKey, WriteMount, RefreshVaultRoutes,
                         ScanLeaked, Clean, files, ghosts, Control, TypeOK
        <3>2. job[p] # "disable"
            BY <2>1, <2>16 DEF Capture, StoreCapture, StoreApiKey, WriteMount, RefreshVaultRoutes,
                         ScanLeaked, Clean, Placed, At, Disabling
        <3> QED
            BY <2>1, <2>2, <3>1, <3>2, OwnedOfMove DEF Removing, Recorded
    <2> QED
        BY <2>4, <2>5, <2>6, <2>7, <2>8, <2>9, <2>10, <2>11, <2>12, <2>13, <2>14, <2>15, <2>16
           DEF Step
<1>3. ASSUME Edit PROVE Owned'
    <2>1. /\ config'.route \in {config.route, None, "own"}
          /\ owned' = (owned /\ \A p \in Processes : ~Active(p))
          /\ UNCHANGED <<sidecar, job, pc, seen>>
        BY <1>3 DEF Edit
    <2>2. owned' => owned /\ \A p \in Processes : pc[p] = "idle"
        BY <2>1 DEF Active
    <2>3. owned' => Recorded(sidecar)'
        BY <2>1, <2>2, NoneAssumption DEF Owned, Recorded, Types
    <2>4. owned' => \A p \in Processes : Removing(job[p], pc[p], seen[p])'
        BY <2>1, <2>2 DEF Removing
    <2> QED
        BY <2>1, <2>2, <2>3, <2>4 DEF Owned, Lone, Active
<1>4. ASSUME AgentLogsIn \/ UNCHANGED vars PROVE Owned'
    <2>1. UNCHANGED <<pc, seen, job, config, sidecar>> /\ (owned' => owned)
        BY <1>4 DEF AgentLogsIn, Disturb, vars
    <2> QED
        BY <2>1 DEF Owned, Lone, Active, Removing, Recorded
<1>5. ASSUME WipeMount PROVE Owned'
    BY <1>5 DEF WipeMount, Owned
<1> QED
    BY <1>1, <1>2, <1>3, <1>4, <1>5 DEF Next

\* Spec => []UnroutedAfterDisable: a launch that disables the provider and runs by itself
\* leaves no route of an undisturbed launch behind, whoever was killed in between.
THEOREM DisableUnroutes == Spec => []UnroutedAfterDisable
<1>1. Init => Control /\ Undisturbed /\ Owned
    BY InitControl, InitUndisturbed DEF Init, Owned
<1>2. Control /\ Undisturbed /\ Owned /\ [Next]_vars => Control' /\ Undisturbed' /\ Owned'
    BY NextControl, UndisturbedStep, OwnedStep
<1>3. Owned => UnroutedAfterDisable
    BY DEF Owned, Removing, UnroutedAfterDisable, EndsAlone
<1> QED
    BY <1>1, <1>2, <1>3, PTL DEF Spec

=============================================================================
