-------------------------- MODULE WorkerTasksProofs --------------------------
(***************************************************************************)
(* What holds of WorkerTasks for all archives, sites, headers, limits,     *)
(* chunk sizes, loads and faults: the extraction keeps its limit; RAT and  *)
(* syft are run when the temporary directory holds exactly the archive's   *)
(* files that belong there; a handler leaves no temporary directory behind *)
(* and the worker where it was; a crawl finds what is within its depth;    *)
(* every copy of a mail is whole; progress is only written to the row of   *)
(* the worker's task or of one it left ACTIVE; and a verification is       *)
(* COMPLETED only for what the code asks of the archive.                   *)
(***************************************************************************)
EXTENDS WorkerTasks, Recursions, TaskTableProofs, FiniteSetTheorems

-----------------------------------------------------------------------------
(* The extraction *)

Early == {"idle", "java", "open", "read", "extract"}

\* Where archive_extract_safe is, and how much it has written.
SizeInv ==
  /\ archive \in Archives
  /\ next \in Nat \ {0} /\ total \in Nat /\ part \in Nat
  /\ total + part <= MaxExtract
  /\ apc \notin {"write", "returned"} => part = 0
  /\ apc = "write" =>
       /\ next <= Len(archive) /\ Member.kind = "file"
       /\ total + Member.size <= MaxExtract /\ part <= Member.size

\* The files that are extracted into the temporary directory.
Inside == {i \in Files : Below(archive[i])}

\* No later member that has been read, or is being read, has the name of i.
Latest(i) ==
  /\ \A j \in Files : i < j /\ j < next => Name(archive[j]) # Name(archive[i])
  /\ apc = "write" => Name(Member) # Name(archive[i])

\* What is in the temporary directory, member by member.
DiskInv ==
  /\ disk = [n \in DOMAIN disk |-> disk[n]]
  /\ apc \in Early => next = 1 /\ DOMAIN disk = {}
  /\ apc \in {"member", "write", "tool"} =>
       /\ \A n \in DOMAIN disk : \E i \in Inside : n = Name(archive[i])
       /\ \A i \in Inside : i < next => Name(archive[i]) \in DOMAIN disk
       /\ \A i \in Inside : i < next /\ Latest(i) => disk[Name(archive[i])] = archive[i].size
  /\ apc = "write" /\ Below(Member) => Name(Member) \in DOMAIN disk /\ disk[Name(Member)] = part
  /\ apc = "tool" => next > Len(archive)

\* The temporary directory is a tree, and what is elsewhere has a name that leads there.
TreeInv ==
  /\ folders \cap DOMAIN disk = {}
  /\ \A n \in outside : \E i \in DOMAIN archive : n = Name(archive[i]) /\ ~Below(archive[i])

ArchiveInv == SizeInv /\ DiskInv /\ TreeInv

\* The members of an archive are numbered, and their sizes are numbers.
LEMMA Members ==
  ASSUME archive \in Archives
  PROVE  /\ Len(archive) \in Nat /\ DOMAIN archive \subseteq Nat \ {0}
         /\ \A i : i \in DOMAIN archive <=> i \in Nat \ {0} /\ i <= Len(archive)
         /\ \A i \in DOMAIN archive : archive[i].size \in Nat
         /\ \A i \in DOMAIN archive : archive[i].kind \in Kinds
<1>1. /\ archive \in Seq(Range(archive))
      /\ \A i \in DOMAIN archive : archive[i].kind \in Kinds /\ archive[i].size \in Nat
  BY ArchivesHaveMembers, Zenon
<1>2. Len(archive) \in Nat /\ DOMAIN archive = 1..Len(archive)
  BY <1>1
<1> QED BY <1>1, <1>2

LEMMA SizesKept ==
  ASSUME ArchiveInv, ArchiveNext
  PROVE  SizeInv'
<1> USE SizesAreNumbers
<1>1. SizeInv /\ archive' = archive
  BY DEF ArchiveInv, ArchiveNext, ArchiveSteps, CheckIntegrity, StartCheck, FindJar, NoJar, OpenForRoot, ReadAll,
         OpenForExtraction, SkipMember, ExtractDirectory, BeginFile, WriteChunk, EndFile, ExtractionFails, RunTool, ToolFails, ToolSucceeds
<1>2. CASE UNCHANGED <<next, total, part>> /\ apc' # "write" /\ (apc \notin {"write", "returned"} \/ apc' = "returned")
  BY <1>1, <1>2 DEF SizeInv
<1>3. CASE SkipMember
  BY <1>1, <1>3 DEF SizeInv, SkipMember
<1>4. CASE BeginFile
  <2>1. next \in DOMAIN archive /\ Member.size \in Nat
    BY <1>1, <1>4, Members DEF SizeInv, BeginFile, Member
  <2>2. CASE WouldExceed \/ Blocked
    BY <1>1, <1>4, <2>2 DEF SizeInv, BeginFile, Returns
  <2>3. CASE ~(WouldExceed \/ Blocked)
    BY <1>1, <1>4, <2>1, <2>3 DEF SizeInv, BeginFile, WouldExceed, Goto, Member
  <2> QED BY <2>2, <2>3
<1>5. CASE WriteChunk
  <2>1. next \in DOMAIN archive /\ Member.size \in Nat
    BY <1>1, <1>5, Members DEF SizeInv, WriteChunk, Member
  <2>2. part' \in Nat /\ part' <= Member.size
    BY <1>1, <1>5, <2>1 DEF SizeInv, WriteChunk
  <2>3. total + part' <= MaxExtract /\ UNCHANGED <<apc, next, total>>
    BY <1>1, <1>5, <2>1, <2>2 DEF SizeInv, WriteChunk
  <2> QED BY <1>1, <1>5, <2>1, <2>2, <2>3 DEF SizeInv, WriteChunk, Member
<1>6. CASE EndFile
  <2>1. next \in DOMAIN archive /\ Member.size \in Nat
    BY <1>1, <1>6, Members DEF SizeInv, EndFile, Member
  <2> QED BY <1>1, <1>6, <2>1 DEF SizeInv, EndFile, Goto
<1>7. ASSUME CheckIntegrity \/ StartCheck \/ FindJar \/ NoJar \/ OpenForRoot \/ ReadAll
             \/ OpenForExtraction \/ ExtractionFails \/ RunTool \/ ToolFails \/ ToolSucceeds
      PROVE  SizeInv'
  <2>1. UNCHANGED <<next, total, part>> /\ apc' # "write" /\ (apc \notin {"write", "returned"} \/ apc' = "returned")
    BY <1>7 DEF CheckIntegrity, StartCheck, FindJar, NoJar, OpenForRoot, ReadAll, OpenForExtraction,
                ExtractionFails, RunTool, ToolFails, ToolSucceeds, Returns, Goto, extractVars
  <2> QED BY <1>2, <2>1
<1>8. CASE ExtractDirectory
  <2>1. apc = "member" /\ apc' \in {"member", "returned"} /\ next' \in {next, next + 1} /\ UNCHANGED <<total, part>>
    BY <1>8 DEF ExtractDirectory, Returns
  <2> QED BY <1>1, <2>1 DEF SizeInv
<1> QED BY <1>3, <1>4, <1>5, <1>6, <1>7, <1>8 DEF ArchiveNext, ArchiveSteps

\* Steps that neither extract nor change what is on the disk.
LEMMA DiskUntouched ==
  ASSUME DiskInv, UNCHANGED <<archive, next, part, disk>>,
         \/ apc' = apc
         \/ apc' \in Early /\ apc \in Early
         \/ apc' = "returned"
  PROVE  DiskInv'
<1>1. Files' = Files /\ Inside' = Inside
  BY DEF Files, Inside, Below
<1>2. Member' = Member
  BY DEF Member
<1> QED BY <1>1, <1>2 DEF DiskInv, Early, Latest, Below, Name

LEMMA DiskKept ==
  ASSUME ArchiveInv, ArchiveNext
  PROVE  DiskInv'
<1>1. /\ SizeInv /\ DiskInv /\ archive' = archive /\ Files' = Files /\ Inside' = Inside
      /\ \A i : i \in Files => i \in Nat \ {0} /\ i <= Len(archive) /\ archive[i].kind = "file" /\ archive[i].size \in Nat
      /\ \A i \in Nat \ {0} : i <= Len(archive) /\ archive[i].kind = "file" => i \in Files
      /\ Inside \subseteq Files /\ \A i \in Files : i \in Inside <=> Below(archive[i])
  <2>1. SizeInv /\ DiskInv /\ archive' = archive
    BY DEF ArchiveInv, ArchiveNext, ArchiveSteps, CheckIntegrity, StartCheck, FindJar, NoJar, OpenForRoot, ReadAll,
           OpenForExtraction, SkipMember, ExtractDirectory, BeginFile, WriteChunk, EndFile, ExtractionFails, RunTool, ToolFails, ToolSucceeds
  <2>2. Files' = Files /\ Inside' = Inside
    BY <2>1 DEF Files, Inside, Below
  <2> QED BY <2>1, <2>2, Members DEF Files, Inside, SizeInv
<1> DEFINE N(i) == Name(archive[i])
<1>2. CASE OpenForExtraction
  <2>1. CASE apc' = "member"
    <3>1. next' = 1 /\ DOMAIN disk' = {} /\ disk' = disk
      BY <1>1, <1>2 DEF OpenForExtraction, DiskInv, Early, extractVars
    <3>2. \A i \in Inside : ~(i < next')
      BY <1>1, <3>1
    <3> QED BY <1>1, <2>1, <3>1, <3>2 DEF DiskInv, Early
  <2>2. CASE apc' = "returned"
    BY <1>1, <1>2, <2>2, DiskUntouched DEF OpenForExtraction, extractVars
  <2> QED BY <1>2, <2>1, <2>2 DEF OpenForExtraction, Returns, Goto
<1>3. CASE SkipMember \/ (ExtractDirectory /\ ~Blocked)
  <2>1. /\ apc = "member" /\ apc' = "member" /\ next' = next + 1 /\ disk' = disk
        /\ Member.kind # "file" /\ next \in Nat
    BY <1>1, <1>3 DEF SkipMember, ExtractDirectory, SizeInv
  <2>2. \A i \in Inside : i < next' <=> i < next
    BY <1>1, <2>1 DEF Member
  <2>3. ASSUME NEW i \in Inside, i < next', Latest(i)'
        PROVE  disk'[N(i)] = archive[i].size
    <3>1. Latest(i)
      BY <1>1, <2>1, <2>2, <2>3 DEF Latest
    <3> QED BY <1>1, <2>1, <2>2, <2>3, <3>1 DEF DiskInv
  <2> QED BY <1>1, <2>1, <2>2, <2>3 DEF DiskInv, Early, Name
<1>4. CASE BeginFile
  <2>1. apc = "member" /\ next' = next /\ next \in Files /\ Member' = Member
    BY <1>1, <1>4 DEF BeginFile, SizeInv, Member
  <2>2. CASE WouldExceed \/ Blocked
    <3>1. apc' = "returned" /\ UNCHANGED <<part, disk>>
      BY <1>4, <2>2 DEF BeginFile, Returns
    <3> QED BY <1>1, <2>1, <3>1, DiskUntouched
  <2>3. CASE ~(WouldExceed \/ Blocked) /\ ~Below(Member)
    <3>1. apc' = "write" /\ DOMAIN disk' = DOMAIN disk /\ disk' = [n \in DOMAIN disk |-> IF n = Name(Member) THEN 0 ELSE disk[n]]
      BY <1>4, <2>3 DEF BeginFile, Goto
    <3>2. \A i \in Inside : N(i) # Name(Member)
      BY <1>1, <2>3 DEF Below, Name
    <3>3. \A n \in DOMAIN disk : disk'[n] = disk[n]
      BY <1>1, <2>1, <3>1, <3>2 DEF DiskInv
    <3>4. \A i \in Inside : Latest(i)' => Latest(i)
      BY <1>1, <2>1 DEF Latest, Name
    <3>5. ~Below(Member)' /\ \A i : N(i)' = N(i)
      BY <1>1, <2>1, <2>3 DEF Below, Name
    <3>6. disk' = [n \in DOMAIN disk' |-> disk'[n]]
      BY <3>1
    <3> QED BY <1>1, <2>1, <3>1, <3>3, <3>4, <3>5, <3>6 DEF DiskInv, Early
  <2>4. CASE ~(WouldExceed \/ Blocked) /\ Below(Member)
    <3> DEFINE m == Name(Member)
    <3>1. /\ apc' = "write" /\ part' = 0
          /\ disk' = [n \in DOMAIN disk \cup {m} |-> IF n = m THEN 0 ELSE disk[n]]
      BY <1>4, <2>4 DEF BeginFile, Goto
    <3>2. m' = m /\ m = N(next) /\ next \in Inside
      BY <1>1, <2>1, <2>4 DEF Member, Name
    <3> HIDE DEF m, N
    <3>3. ASSUME NEW i \in Inside, i < next', Latest(i)'
          PROVE  disk'[N(i)] = archive[i].size
      <4>1. N(i) # m /\ Latest(i)
        BY <1>1, <2>1, <3>1, <3>2, <3>3 DEF Latest, m, N
      <4>2. N(i) \in DOMAIN disk /\ disk[N(i)] = archive[i].size
        BY <1>1, <2>1, <3>3, <4>1 DEF DiskInv, N
      <4> QED BY <3>1, <4>1, <4>2
    <3>4. DOMAIN disk' = DOMAIN disk \cup {m}
      BY <3>1
    <3>5. \A n \in DOMAIN disk' : \E i \in Inside : n = N(i)
      BY <1>1, <2>1, <3>2, <3>4 DEF DiskInv, N
    <3>6. \A i \in Inside : i < next' => N(i) \in DOMAIN disk'
      BY <1>1, <2>1, <3>4 DEF DiskInv, N
    <3>7. disk'[m] = 0 /\ m \in DOMAIN disk'
      BY <3>1
    <3>8. disk' = [n \in DOMAIN disk' |-> disk'[n]]
      BY <3>1
    <3>9. \A i : N(i)' = N(i)
      BY <1>1 DEF N, Name
    <3> QED BY <1>1, <3>1, <3>2, <3>3, <3>5, <3>6, <3>7, <3>8, <3>9 DEF DiskInv, Early, m, N
  <2> QED BY <2>2, <2>3, <2>4
<1>5. CASE WriteChunk
  <2> DEFINE m == Name(Member)
  <2>1. /\ apc = "write" /\ next' = next /\ m' = m /\ (Below(Member)' <=> Below(Member))
        /\ disk' = [n \in DOMAIN disk |-> IF n = m THEN part' ELSE disk[n]]
        /\ Below(Member) => m \in DOMAIN disk
    BY <1>1, <1>5 DEF WriteChunk, DiskInv, Member, Below, Name
  <2>2. apc' \in {"write", "returned"}
    BY <1>5, <2>1 DEF WriteChunk, Returns
  <2> HIDE DEF m, N
  <2>3. DOMAIN disk' = DOMAIN disk /\ (m \in DOMAIN disk => disk'[m] = part') /\ \A n \in DOMAIN disk : n # m => disk'[n] = disk[n]
    BY <2>1
  <2>4. ASSUME apc' = "write", NEW i \in Inside, i < next', Latest(i)'
        PROVE  disk'[N(i)] = archive[i].size
    <3>1. N(i) # m /\ Latest(i)
      BY <1>1, <2>1, <2>4 DEF Latest, m, N
    <3>2. N(i) \in DOMAIN disk /\ disk[N(i)] = archive[i].size
      BY <1>1, <2>1, <2>4, <3>1 DEF DiskInv, N
    <3> QED BY <2>3, <3>1, <3>2
  <2>5. disk' = [n \in DOMAIN disk' |-> disk'[n]]
    BY <2>1
  <2>6. /\ \A n \in DOMAIN disk' : \E i \in Inside : n = N(i)
        /\ \A i \in Inside : i < next' => N(i) \in DOMAIN disk'
    BY <1>1, <2>1, <2>3 DEF DiskInv, N
  <2>7. \A i : N(i)' = N(i)
    BY <1>1 DEF N, Name
  <2> QED BY <1>1, <2>1, <2>2, <2>3, <2>4, <2>5, <2>6, <2>7 DEF DiskInv, Early, m, N
<1>6. CASE EndFile
  <2>1. /\ apc = "write" /\ apc' = "member" /\ next' = next + 1 /\ disk' = disk
        /\ part = Member.size /\ next \in Nat /\ next \in Files
    BY <1>1, <1>6 DEF EndFile, Goto, SizeInv, Member
  <2>2. next \in Inside => N(next) \in DOMAIN disk /\ disk[N(next)] = archive[next].size
    BY <1>1, <2>1 DEF DiskInv, Member
  <2>3. \A i \in Inside : i < next' <=> i < next \/ i = next
    BY <1>1, <2>1
  <2> HIDE DEF N
  <2>4. ASSUME NEW i \in Inside, i < next', Latest(i)'
        PROVE  disk'[N(i)] = archive[i].size
    <3>1. CASE i = next
      BY <2>1, <2>2, <3>1
    <3>2. CASE i < next
      <4>1. N(next) # N(i)
        BY <1>1, <2>1, <2>3, <2>4, <3>2 DEF Latest, N
      <4>2. Latest(i)
        BY <1>1, <2>1, <2>3, <2>4, <4>1 DEF Latest, N, Member
      <4> QED BY <1>1, <2>1, <3>2, <4>2 DEF DiskInv, N
    <3> QED BY <2>3, <2>4, <3>1, <3>2
  <2>5. /\ \A n \in DOMAIN disk' : \E i \in Inside : n = N(i)
        /\ \A i \in Inside : i < next' => N(i) \in DOMAIN disk'
    BY <1>1, <2>1, <2>2, <2>3 DEF DiskInv, N
  <2>6. \A i : N(i)' = N(i)
    BY <1>1 DEF N, Name
  <2> QED BY <1>1, <2>1, <2>4, <2>5, <2>6 DEF DiskInv, Early, N
<1>7. CASE RunTool
  <2>1. apc = "member" /\ apc' = "tool" /\ next > Len(archive) /\ UNCHANGED <<next, disk>>
    BY <1>7 DEF RunTool, Goto, extractVars
  <2>2. \A i : Latest(i)' = Latest(i)
    BY <1>1, <2>1 DEF Latest, Name
  <2> QED BY <1>1, <2>1, <2>2 DEF DiskInv, Early, Name
<1>8. ASSUME CheckIntegrity \/ StartCheck \/ FindJar \/ NoJar \/ OpenForRoot \/ ReadAll \/ ToolFails \/ ToolSucceeds
             \/ ExtractionFails \/ (ExtractDirectory /\ Blocked)
      PROVE  DiskInv'
  <2>1. UNCHANGED <<archive, next, part, disk>>
    BY <1>1, <1>8 DEF CheckIntegrity, StartCheck, FindJar, NoJar, OpenForRoot, ReadAll, ToolFails,
                      ToolSucceeds, ExtractionFails, ExtractDirectory, extractVars
  <2>2. apc' = "returned" \/ (apc' \in Early /\ apc \in Early)
    BY <1>8 DEF CheckIntegrity, StartCheck, FindJar, NoJar, OpenForRoot, ReadAll, ToolFails, ToolSucceeds,
                ExtractionFails, ExtractDirectory, Returns, Goto, Early
  <2> QED BY <1>1, <2>1, <2>2, DiskUntouched
<1> QED BY <1>2, <1>3, <1>4, <1>5, <1>6, <1>7, <1>8 DEF ArchiveNext, ArchiveSteps

\* The guard of Blocked keeps the names of files and directories apart.
LEMMA TreeKept ==
  ASSUME ArchiveInv, ArchiveNext
  PROVE  TreeInv'
<1>1. SizeInv /\ DiskInv /\ TreeInv /\ archive' = archive
  BY DEF ArchiveInv, ArchiveNext, ArchiveSteps, CheckIntegrity, StartCheck, FindJar, NoJar, OpenForRoot, ReadAll,
         OpenForExtraction, SkipMember, ExtractDirectory, BeginFile, WriteChunk, EndFile, ExtractionFails, RunTool, ToolFails, ToolSucceeds
<1>2. CASE DOMAIN disk' = DOMAIN disk /\ UNCHANGED <<folders, outside>>
  BY <1>1, <1>2 DEF TreeInv, Name, Below
<1>3. ASSUME apc = "member", next <= Len(archive), NEW new, Put(new)
      PROVE  /\ folders' \subseteq folders \cup (IF Below(Member) THEN new ELSE {})
             /\ \A n \in outside' : \E i \in DOMAIN archive : n = Name(archive[i]) /\ ~Below(archive[i])
  <2>1. next \in DOMAIN archive
    BY <1>1, <1>3, Members DEF SizeInv
  <2> QED BY <1>1, <1>3, <2>1 DEF TreeInv, Put, Member
<1>4. \A i : Name(archive[i])' = Name(archive[i]) /\ (Below(archive[i])' <=> Below(archive[i]))
  BY <1>1 DEF Name, Below
<1>5. CASE ExtractDirectory /\ ~Blocked
  <2>1. /\ apc = "member" /\ next <= Len(archive) /\ Member.kind = "directory" /\ disk' = disk
        /\ Put({Name(Member)} \cup Folder(Member))
    BY <1>5 DEF ExtractDirectory
  <2>2. folders' \cap DOMAIN disk = {}
    BY <1>1, <1>3, <1>5, <2>1 DEF TreeInv, Blocked
  <2> QED BY <1>1, <1>3, <1>4, <2>1, <2>2 DEF TreeInv
<1>6. CASE BeginFile /\ ~WouldExceed /\ ~Blocked
  <2>1. /\ apc = "member" /\ next <= Len(archive) /\ Member.kind = "file"
        /\ Put(Folder(Member))
        /\ DOMAIN disk' = DOMAIN disk \cup (IF Below(Member) THEN {Name(Member)} ELSE {})
    BY <1>6 DEF BeginFile
  <2>2. Name(Member) \notin Folder(Member)
    BY DEF Name, Folder
  <2>3. folders' \cap DOMAIN disk' = {}
    BY <1>1, <1>3, <1>6, <2>1, <2>2 DEF TreeInv, Blocked
  <2> QED BY <1>1, <1>3, <1>4, <2>1, <2>3 DEF TreeInv
<1>7. CASE WriteChunk
  BY <1>2, <1>7 DEF WriteChunk
<1>8. ASSUME CheckIntegrity \/ StartCheck \/ FindJar \/ NoJar \/ OpenForRoot \/ ReadAll
             \/ OpenForExtraction \/ SkipMember \/ EndFile \/ ExtractionFails \/ RunTool \/ ToolFails \/ ToolSucceeds
             \/ (ExtractDirectory /\ Blocked) \/ (BeginFile /\ (WouldExceed \/ Blocked))
      PROVE  TreeInv'
  <2>1. UNCHANGED <<disk, folders, outside>>
    BY <1>8 DEF CheckIntegrity, StartCheck, FindJar, NoJar, OpenForRoot, ReadAll, OpenForExtraction, SkipMember,
                EndFile, ExtractionFails, RunTool, ToolFails, ToolSucceeds, ExtractDirectory, BeginFile, extractVars
  <2> QED BY <1>2, <2>1
<1> QED BY <1>5, <1>6, <1>7, <1>8 DEF ArchiveNext, ArchiveSteps

-----------------------------------------------------------------------------
(* What is left behind *)

\* The handler of an archive, by itself.
HandlerInv ==
  /\ apc \in {"idle", "returned"} => ~tempDir
  /\ apc # "tool" => cwd = "state"
  /\ apc # "returned" => answer = "none"

\* The handler has ended, or not begun, unless the worker is inside it.
WorkerInv ==
  /\ wpc \in {"loop", "error"} => apc \in {"idle", "returned"}
  /\ wpc = "run" /\ load[job] # "archive" => apc \in {"idle", "returned"}
  /\ wpc = "gone" => ~tempDir \/ left

PlaceInv == HandlerInv /\ WorkerInv

LEMMA HandlerKept ==
  ASSUME HandlerInv, ArchiveNext
  PROVE  HandlerInv'
<1>1. CASE CheckIntegrity \/ NoJar \/ ReadAll
  BY <1>1 DEF HandlerInv, CheckIntegrity, NoJar, ReadAll, Returns
<1>2. CASE StartCheck \/ FindJar
  BY <1>2 DEF HandlerInv, StartCheck, FindJar, Goto
<1>3. CASE OpenForRoot
  <2>1. \/ apc' = "returned" /\ ~tempDir'
        \/ apc' \in {"extract", "read"} /\ UNCHANGED <<tempDir, answer>>
    BY <1>3 DEF OpenForRoot, Returns, Goto
  <2>2. apc = "open" /\ UNCHANGED cwd
    BY <1>3 DEF OpenForRoot
  <2> QED BY <2>1, <2>2 DEF HandlerInv
<1>4. CASE OpenForExtraction \/ SkipMember \/ ExtractDirectory \/ EndFile \/ ExtractionFails
  BY <1>4 DEF HandlerInv, OpenForExtraction, SkipMember, ExtractDirectory, EndFile, ExtractionFails, Returns, Goto
<1>5. CASE BeginFile \/ WriteChunk
  <2>1. \/ apc' = "returned" /\ ~tempDir'
        \/ apc' = "write" /\ UNCHANGED <<tempDir, answer>>
    BY <1>5 DEF BeginFile, WriteChunk, Returns, Goto
  <2>2. apc \in {"member", "write"} /\ UNCHANGED cwd
    BY <1>5 DEF BeginFile, WriteChunk
  <2> QED BY <2>1, <2>2 DEF HandlerInv
<1>6. CASE RunTool \/ ToolFails \/ ToolSucceeds
  BY <1>6 DEF HandlerInv, RunTool, ToolFails, ToolSucceeds, Returns, Goto
<1> QED BY <1>1, <1>2, <1>3, <1>4, <1>5, <1>6 DEF ArchiveNext, ArchiveSteps

\* A result of the archive's handler is there only when it has returned.
LEMMA ResultsAreReturned ==
  ASSUME PlaceInv, wpc = "run", Result \in Outcome \cup {"raises", "coroutine"}
  PROVE  apc \in {"idle", "returned"}
<1>1. CASE load[job] = "archive"
  <2>1. answer # "none"
    BY <1>1 DEF Result, Outcome
  <2> QED BY <2>1 DEF PlaceInv, HandlerInv
<1>2. CASE load[job] # "archive"
  BY <1>2 DEF PlaceInv, WorkerInv
<1> QED BY <1>1, <1>2

LEMMA PlaceKept ==
  ASSUME PlaceInv, [Next]_vars
  PROVE  PlaceInv'
<1>1. CASE UNCHANGED <<archiveVars, wpc, load, job, left>>
  BY <1>1 DEF PlaceInv, HandlerInv, WorkerInv, archiveVars
<1>2. CASE RunArchive
  <2>1. HandlerInv'
    BY <1>2, HandlerKept DEF RunArchive, PlaceInv
  <2>2. wpc' = "run" /\ load'[job'] = "archive"
    BY <1>2 DEF RunArchive, Executes, workerVars
  <2> QED BY <2>1, <2>2 DEF PlaceInv, WorkerInv
<1>3. CASE Claim
  BY <1>3 DEF Claim, PlaceInv, HandlerInv, WorkerInv, archiveVars
<1>4. CASE Delete /\ UNCHANGED <<wpc, load, job, left>>
  BY <1>4 DEF Delete, PlaceInv, HandlerInv, WorkerInv
<1>5. CASE StoreResult \/ HandlerRaises \/ StoreFails
  <2>1. apc \in {"idle", "returned"}
    BY <1>5, ResultsAreReturned DEF StoreResult, HandlerRaises, StoreFails
  <2>2. wpc' \in {"gone", "error"} /\ UNCHANGED <<archiveVars, left>>
    BY <1>5 DEF StoreResult, HandlerRaises, StoreFails, Finishes
  <2> QED BY <2>1, <2>2 DEF PlaceInv, HandlerInv, WorkerInv, archiveVars
<1>6. CASE RecordError \/ RecordErrorFails
  <2>1. wpc = "error" /\ wpc' \in {"gone", "loop"} /\ UNCHANGED <<archiveVars, left>>
    BY <1>6 DEF RecordError, RecordErrorFails, Finishes
  <2> QED BY <2>1 DEF PlaceInv, HandlerInv, WorkerInv, archiveVars
<1>7. CASE Stopped
  BY <1>7 DEF Stopped, Finishes, PlaceInv, HandlerInv, WorkerInv
<1>8. CASE Killed
  BY <1>8 DEF Killed, Finishes, PlaceInv, HandlerInv, WorkerInv, archiveVars
<1>9. CASE RunMail \/ RunBulk \/ UNCHANGED vars
  BY <1>1, <1>9 DEF RunMail, RunBulk, vars, workerVars
<1>10. CASE DeletePackage
  BY <1>4, <1>10 DEF DeletePackage, workerVars
<1> QED BY <1>2, <1>3, <1>5, <1>6, <1>7, <1>8, <1>9, <1>10 DEF Next, Executing, Settling

-----------------------------------------------------------------------------
(* The theorems *)

LEMMA InitArchive == Init => ArchiveInv /\ PlaceInv
<1> SUFFICES ASSUME Init
             PROVE  ArchiveInv /\ PlaceInv
  OBVIOUS
<1>1. ArchiveInit /\ wpc = "loop"
  BY DEF Init
<1>2. DOMAIN disk = {} /\ disk = [n \in DOMAIN disk |-> disk[n]]
  BY <1>1 DEF ArchiveInit
<1> QED BY <1>1, <1>2, SizesAreNumbers
        DEF ArchiveInit, ArchiveInv, SizeInv, DiskInv, TreeInv, Early, PlaceInv, HandlerInv, WorkerInv

LEMMA ArchiveKept ==
  ASSUME ArchiveInv, [Next]_vars
  PROVE  ArchiveInv'
<1>1. CASE UNCHANGED <<archive, apc, next, total, part, disk, folders, outside>>
  <2>1. SizeInv' /\ TreeInv'
    BY <1>1 DEF ArchiveInv, SizeInv, TreeInv, Member, Below, Name
  <2>2. DiskInv'
    BY <1>1, DiskUntouched DEF ArchiveInv
  <2> QED BY <2>1, <2>2 DEF ArchiveInv
<1>2. CASE RunArchive
  BY <1>2, SizesKept, DiskKept, TreeKept DEF RunArchive, ArchiveInv
<1>3. CASE ~RunArchive
  <2>1. UNCHANGED <<archive, apc, next, total, part, disk, folders, outside>>
    BY <1>3 DEF Next, Claim, Executing, RunMail, RunBulk, DeletePackage, Delete, Settling, StoreResult,
                HandlerRaises, StoreFails, RecordError, RecordErrorFails, Stopped, Killed, archiveVars,
                extractVars, vars
  <2> QED BY <1>1, <2>1
<1> QED BY <1>2, <1>3

\* archive_extract_safe never has more than MAX_EXTRACT_SIZE on the disk, whatever
\* the archive, the limit and the chunk size are.
THEOREM ExtractionIsLimited == Spec => []DiskWithinLimit
<1>1. ArchiveInv => DiskWithinLimit
  BY DEF ArchiveInv, SizeInv, DiskWithinLimit
<1>2. Init => ArchiveInv
  BY InitArchive
<1>3. ArchiveInv /\ [Next]_vars => ArchiveInv'
  BY ArchiveKept
<1> QED BY <1>1, <1>2, <1>3, PTL DEF Spec

\* A set of numbers that none exceeds has a greatest one.
LEMMA Greatest ==
  ASSUME NEW n \in Nat, NEW S \in SUBSET (0..n), S # {}
  PROVE  /\ Max(S) \in S
         /\ \A i \in S : i <= Max(S)
<1>1. \E g \in S : \A i \in S : g >= i
  BY HasGreatest
<1> QED BY <1>1 DEF Max

\* RAT and syft are run when the temporary directory holds exactly the files of the
\* archive whose names do not lead out of it, each with the content of its last
\* occurrence, and none in the place of a directory (archive_extract_safe).
THEOREM ToolsSeeTheFiles == Spec => []ToolSeesTheArchive
<1>1. ASSUME ArchiveInv
      PROVE  ToolSeesTheArchive
  <2> SUFFICES ASSUME apc = "tool"
               PROVE  disk = [name \in {Name(archive[i]) : i \in Inside} |-> archive[LastOf(name)].size]
    BY <1>1 DEF ToolSeesTheArchive, Inside, ArchiveInv, TreeInv
  <2>1. \A i \in Files : i \in Nat /\ i <= Len(archive) /\ i < next
    BY <1>1, Members DEF ArchiveInv, SizeInv, DiskInv, Files
  <2>2. DOMAIN disk = {Name(archive[i]) : i \in Inside}
    BY <1>1, <2>1 DEF ArchiveInv, DiskInv, Inside
  <2>3. ASSUME NEW name \in DOMAIN disk
        PROVE  disk[name] = archive[LastOf(name)].size
    <3> DEFINE S == {i \in Files : Name(archive[i]) = name}
               g == LastOf(name)
    <3>1. S # {} /\ S \subseteq 0..next /\ next \in Nat
      BY <1>1, <2>1, <2>2 DEF ArchiveInv, SizeInv, Inside
    <3>2. g = Max(S)
      BY DEF LastOf
    <3> HIDE DEF S, g
    <3>3. g \in S /\ \A i \in S : i <= g
      BY <3>1, <3>2, Greatest
    <3>4. g \in Files /\ Name(archive[g]) = name /\ \A i \in Files : Name(archive[i]) = name => i <= g
      BY <3>3 DEF S
    <3>5. Latest(g)
      BY <2>1, <3>4 DEF Latest
    <3>6. g \in Inside
      BY <2>2, <3>4 DEF Inside, Below, Name
    <3> QED BY <1>1, <2>1, <3>4, <3>5, <3>6 DEF ArchiveInv, DiskInv, g
  <2> QED BY <1>1, <2>2, <2>3 DEF ArchiveInv, DiskInv
<1>2. Init => ArchiveInv
  BY InitArchive
<1>3. ArchiveInv /\ [Next]_vars => ArchiveInv'
  BY ArchiveKept
<1> QED BY <1>1, <1>2, <1>3, PTL DEF Spec

\* However a handler ends, its temporary directory is removed and the worker is back
\* in its own, but for a directory that SIGKILL leaves; and what it wrote elsewhere,
\* which nobody removes, are members whose names lead out of the directory.
THEOREM HandlersCleanUp == Spec => []NothingLeftBehind
<1>1. ArchiveInv /\ PlaceInv => NothingLeftBehind
  BY DEF ArchiveInv, TreeInv, PlaceInv, HandlerInv, WorkerInv, NothingLeftBehind
<1>2. Init => ArchiveInv /\ PlaceInv
  BY InitArchive
<1>3. ArchiveInv /\ PlaceInv /\ [Next]_vars => ArchiveInv' /\ PlaceInv'
  BY ArchiveKept, PlaceKept
<1> QED BY <1>1, <1>2, <1>3, PTL DEF Spec

-----------------------------------------------------------------------------
(* What the crawl reaches *)


\* The URLs that the pages of a set, as far as they have answered, lead to.
Onward(pages) ==
  {url \in UNION {Range(Links(page)) : page \in fetched} :
     InScope(url) /\ \E page \in pages \cap fetched : url \in Range(Links(page)) /\ IsPrefix(page, url)}

Home == {url \in {BaseUrl} : InScope(url)}

\* Within is what its definition says: the recursion has a solution.
WithinUnfolds ==
  /\ Within[0] = Home
  /\ \A n \in Nat : Within[n + 1] = Within[n] \cup Onward(Within[n])

LEMMA WithinIs == WithinUnfolds
<1> DEFINE all == {BaseUrl} \cup UNION {Range(Links(page)) : page \in fetched}
           V == SUBSET all
           step == [p \in (Nat \ {0}) \X V |-> p[2] \cup Onward(p[2])]
<1>1. \A pages : Onward(pages) \in V
  BY DEF Onward
<1>2. step \in Steps(V)
  <2>1. \A p \in (Nat \ {0}) \X V : p[2] \cup Onward(p[2]) \in V
    BY <1>1
  <2> QED BY <2>1 DEF Steps
<1>3. Home \in V
  BY DEF Home
<1>4. \A n \in Nat \ {0}, pages \in V : step[<<n, pages>>] = pages \cup Onward(pages)
  OBVIOUS
<1> HIDE DEF V, step
<1>5. PICK f : Recurs(f, V, Home, step)
  BY <1>2, <1>3, Recursion
<1>6. ASSUME NEW n \in Nat
      PROVE  f[n] = IF n = 0 THEN Home ELSE f[n - 1] \cup Onward(f[n - 1])
  <2>1. CASE n = 0
    BY <1>5, <2>1 DEF Recurs
  <2>2. CASE n # 0
    <3>1. n - 1 \in Nat /\ f[n - 1] \in V
      BY <1>5, <2>2 DEF Recurs
    <3>2. step[<<n, f[n - 1]>>] = f[n - 1] \cup Onward(f[n - 1])
      BY <1>4, <2>2, <3>1
    <3> QED BY <1>5, <2>2, <3>2 DEF Recurs
  <2> QED BY <2>1, <2>2
<1>7. f = [n \in Nat |-> IF n = 0 THEN Home ELSE f[n - 1] \cup Onward(f[n - 1])]
  <2>1. f = [n \in Nat |-> f[n]]
    BY <1>5 DEF Recurs
  <2> QED BY <1>6, <2>1
<1>8. Within = [n \in Nat |-> IF n = 0 THEN Home ELSE Within[n - 1] \cup Onward(Within[n - 1])]
  <2> DEFINE g == CHOOSE g : g = [n \in Nat |-> IF n = 0 THEN Home ELSE g[n - 1] \cup Onward(g[n - 1])]
  <2>1. g = [n \in Nat |-> IF n = 0 THEN Home ELSE g[n - 1] \cup Onward(g[n - 1])]
    BY <1>7, Zenon
  <2>2. Within = g
    BY DEF Within, Home, Onward
  <2> HIDE DEF g
  <2> QED BY <2>1, <2>2
<1>9. Within[0] = Home
  BY <1>8
<1>10. ASSUME NEW n \in Nat
       PROVE  Within[n + 1] = Within[n] \cup Onward(Within[n])
  <2>1. n + 1 \in Nat /\ n + 1 # 0 /\ (n + 1) - 1 = n
    OBVIOUS
  <2>2. Within[n + 1] = IF n + 1 = 0 THEN Home ELSE Within[(n + 1) - 1] \cup Onward(Within[(n + 1) - 1])
    BY <1>8, <2>1
  <2> QED BY <2>1, <2>2
<1> QED BY <1>9, <1>10 DEF WithinUnfolds

LEMMA WithinIsThen == TRUE => WithinUnfolds'
BY WithinIs, PTL

\* More links never lead to less.
LEMMA WithinGrows ==
  ASSUME NEW n \in Nat, NEW m \in Nat, n <= m
  PROVE  Within[n] \subseteq Within[m]
<1> DEFINE S == {k \in Nat : n <= k => Within[n] \subseteq Within[k]}
<1>1. 0 \in S
  OBVIOUS
<1>2. ASSUME NEW k \in Nat, k \in S
      PROVE  k + 1 \in S
  <2>1. Within[k + 1] = Within[k] \cup Onward(Within[k])
    BY WithinIs DEF WithinUnfolds
  <2>2. CASE n <= k
    BY <1>2, <2>1, <2>2
  <2>3. CASE n = k + 1
    BY <2>3
  <2>4. CASE n > k + 1
    BY <2>4
  <2> QED BY <2>2, <2>3, <2>4
<1> HIDE DEF S
<1>3. Nat \subseteq S
  BY <1>1, <1>2, Induction
<1> QED BY <1>3 DEF S

\* When one more link leads to nothing new, no number of them does.
LEMMA WithinEnds ==
  ASSUME NEW n \in Nat, Within[n + 1] \subseteq Within[n]
  PROVE  \A m \in Nat : n <= m => Within[m] = Within[n]
<1> DEFINE S == {k \in Nat : n <= k => Within[k] = Within[n]}
<1>1. 0 \in S
  OBVIOUS
<1>2. ASSUME NEW k \in Nat, k \in S
      PROVE  k + 1 \in S
  <2>1. Within[k + 1] = Within[k] \cup Onward(Within[k]) /\ Within[n + 1] = Within[n] \cup Onward(Within[n])
    BY WithinIs DEF WithinUnfolds
  <2>2. CASE n <= k
    BY <1>2, <2>1, <2>2
  <2>3. CASE n = k + 1
    BY <2>3
  <2>4. CASE n > k + 1
    BY <2>4
  <2> QED BY <2>2, <2>3, <2>4
<1> HIDE DEF S
<1>3. Nat \subseteq S
  BY <1>1, <1>2, Induction
<1> QED BY <1>3 DEF S

\* Only what is in scope is ever reached.
LEMMA WithinScope == \A n \in Nat : \A url \in Within[n] : InScope(url)
<1> DEFINE S == {n \in Nat : \A url \in Within[n] : InScope(url)}
<1>1. 0 \in S
  BY WithinIs DEF WithinUnfolds, Home
<1>2. ASSUME NEW n \in Nat, n \in S
      PROVE  n + 1 \in S
  <2>1. Within[n + 1] = Within[n] \cup Onward(Within[n])
    BY WithinIs DEF WithinUnfolds
  <2> QED BY <1>2, <2>1 DEF Onward
<1> HIDE DEF S
<1>3. Nat \subseteq S
  BY <1>1, <1>2, Induction
<1> QED BY <1>3 DEF S

\* A page that fewer than n links do not lead to has no say in what n links lead to.
LEMMA WithinSame ==
  ASSUME NEW n \in Nat, NEW page, site' = site,
         \/ fetched' = fetched
         \/ fetched' = fetched \cup {page} /\ \A k \in Nat : k < n => page \notin Within[k]
  PROVE  \A k \in Nat : k <= n => Within'[k] = Within[k]
<1> DEFINE S == {k \in Nat : k <= n => Within'[k] = Within[k]}
<1>1. WithinUnfolds /\ WithinUnfolds'
  BY WithinIs, WithinIsThen
<1>2. Home' = Home
  BY DEF Home, InScope
<1>3. 0 \in S
  BY <1>1, <1>2 DEF WithinUnfolds
<1>4. ASSUME NEW k \in Nat, k \in S
      PROVE  k + 1 \in S
  <2> SUFFICES ASSUME k + 1 <= n
               PROVE  Within'[k + 1] = Within[k + 1]
    OBVIOUS
  <2>1. Within'[k] = Within[k] /\ (fetched' = fetched \/ (fetched' = fetched \cup {page} /\ page \notin Within[k]))
    BY <1>4
  <2>2. PICK w : w = Within[k]
    OBVIOUS
  <2>3. Onward(w)' = Onward(w)
    <3>1. w \cap fetched' = w \cap fetched
      BY <2>1, <2>2
    <3>2. \A p : Links(p)' = Links(p)
      BY DEF Links
    <3> QED BY <3>1, <3>2 DEF Onward, InScope
  <2>4. Within[k + 1] = w \cup Onward(w)
    BY <1>1, <2>2 DEF WithinUnfolds
  <2>5. Within'[k + 1] = w \cup Onward(w)'
    BY <1>1, <2>1, <2>2 DEF WithinUnfolds
  <2> QED BY <2>3, <2>4, <2>5
<1> HIDE DEF S
<1>5. Nat \subseteq S
  BY <1>3, <1>4, Induction
<1> QED BY <1>5 DEF S

Urls == {BaseUrl} \cup UNION {Range(site[page]) : page \in DOMAIN site}

LEMMA LinksAre ==
  ASSUME site \in Sites, NEW url
  PROVE  Links(url) \in Seq(Urls) /\ Range(Links(url)) \subseteq Urls
<1>1. CASE url \in DOMAIN site
  <2>1. site[url] \in Seq(Range(site[url]))
    BY <1>1, SitesHaveLinks
  <2>2. Range(site[url]) \subseteq Urls
    BY <1>1 DEF Urls
  <2> DEFINE R == Range(site[url])
             U == Urls
  <2> HIDE DEF R, U
  <2>3. site[url] \in Seq(U)
    <3>1. site[url] \in Seq(R) /\ R \subseteq U
      BY <2>1, <2>2 DEF R, U
    <3> QED BY <3>1
  <2> QED BY <1>1, <2>2, <2>3 DEF Links, R, U
<1>2. CASE url \notin DOMAIN site
  <2>1. Links(url) = <<>>
    BY <1>2 DEF Links
  <2> QED BY <2>1 DEF Range
<1> QED BY <1>1, <1>2

\* What is queued of a page is its links below it, but for those seen.
LEMMA NewLinksAre ==
  ASSUME site \in Sites, NEW url
  PROVE  /\ NewLinks(url) \in Seq(Urls)
         /\ Range(NewLinks(url)) = {link \in Range(Links(url)) : IsPrefix(url, link) /\ link \notin seen \cup {url}}
<1> DEFINE links == Links(url)
           n == Len(links)
           V == {links[i] : i \in Nat \ {0}}
           items == [i \in Nat \ {0} |-> New(url, links[i])]
           want == {link \in Range(links) : IsPrefix(url, link) /\ link \notin seen \cup {url}}
<1>1. items \in Items(V)
  <2>1. ASSUME NEW i \in Nat \ {0}
        PROVE  New(url, links[i]) \in Seq(V)
    <3>1. links[i] \in V
      OBVIOUS
    <3> HIDE DEF V, links
    <3> QED BY <3>1 DEF New
  <2> HIDE DEF V
  <2> QED BY <2>1 DEF Items
<1>2. PICK c : Joins(c, items)
  <2> HIDE DEF V, items
  <2> QED BY <1>1, JoinExists
<1>3. c = [m \in Nat |-> IF m = 0 THEN <<>> ELSE c[m - 1] \o New(url, links[m])]
  BY <1>2 DEF Joins
<1> DEFINE d == CHOOSE f : f = [m \in Nat |-> IF m = 0 THEN <<>> ELSE f[m - 1] \o New(url, links[m])]
<1>4. d = [m \in Nat |-> IF m = 0 THEN <<>> ELSE d[m - 1] \o New(url, links[m])]
  BY <1>3, Zenon
<1>5. NewLinks(url) = d[n]
  BY DEF NewLinks, Joined
<1> HIDE DEF d
<1>6. Joins(d, items)
  BY <1>4 DEF Joins
<1>7. links \in Seq(Urls) /\ n \in Nat /\ Range(links) = {links[i] : i \in 1..n} /\ Range(links) \subseteq Urls
  BY LinksAre DEF Range
<1>8. \A i \in 1..n : items[i] = New(url, links[i])
  BY <1>7
<1> HIDE DEF V, items, links, n
<1>9. /\ d[n] \in Seq(V)
      /\ \A v : (\E i \in 1..Len(d[n]) : d[n][i] = v) <=> (\E m \in 1..n : \E i \in 1..Len(items[m]) : items[m][i] = v)
  <2>1. Holds(d[n], items, n, V)
    BY <1>1, <1>6, <1>7, JoinHas
  <2> QED BY <2>1 DEF Holds
<1>10. \A v : (\E m \in 1..n : \E i \in 1..Len(items[m]) : items[m][i] = v) <=> v \in want
  <2>1. ASSUME NEW m \in 1..n, NEW v
        PROVE  (\E i \in 1..Len(New(url, links[m])) : New(url, links[m])[i] = v)
               <=> v = links[m] /\ IsPrefix(url, v) /\ v \notin seen \cup {url}
    <3>1. CASE IsPrefix(url, links[m]) /\ links[m] \notin seen \cup {url}
      <4>1. New(url, links[m]) = <<links[m]>>
        BY <3>1 DEF New
      <4>2. Len(<<links[m]>>) = 1 /\ <<links[m]>>[1] = links[m]
        OBVIOUS
      <4> QED BY <3>1, <4>1, <4>2
    <3>2. CASE ~(IsPrefix(url, links[m]) /\ links[m] \notin seen \cup {url})
      <4>1. New(url, links[m]) = <<>> /\ Len(<<>>) = 0 /\ 1..0 = {}
        BY <3>2 DEF New
      <4> QED BY <3>2, <4>1
    <3> QED BY <3>1, <3>2
  <2>2. \A v : v \in want <=> \E m \in 1..n : v = links[m] /\ IsPrefix(url, v) /\ v \notin seen \cup {url}
    BY <1>7
  <2> HIDE DEF want
  <2> QED BY <1>8, <2>1, <2>2
<1>11. \A v : v \in want <=> \E i \in 1..Len(d[n]) : d[n][i] = v
  BY <1>9, <1>10
<1> HIDE DEF want
<1>12. Range(d[n]) = want
  <2>1. DOMAIN d[n] = 1..Len(d[n])
    BY <1>9
  <2> QED BY <1>11, <2>1 DEF Range
<1>13. want \subseteq Urls
  BY <1>7 DEF want
<1>14. d[n] \in Seq(Urls)
  <2>1. \A i \in 1..Len(d[n]) : d[n][i] \in Urls
    BY <1>11, <1>13
  <2> DEFINE e == d[n]
             U == Urls
  <2> HIDE DEF e, U
  <2>2. e \in Seq(V) /\ \A i \in 1..Len(e) : e[i] \in U
    BY <1>9, <2>1 DEF e, U
  <2>3. e \in Seq(U)
    BY <2>2
  <2> QED BY <2>3 DEF e, U
<1> QED BY <1>5, <1>12, <1>14 DEF want, links

-----------------------------------------------------------------------------
(* The crawl, depth by depth *)

Rest == {queue[i] : i \in 1..level}
Following == {queue[i] : i \in level + 1..Len(queue)}

\* What is known while a depth is crawled: all that fewer links lead to has been
\* seen; what as many links lead to has been seen or is still to be taken; and
\* what one more link leads to is seen, still to be taken, or queued behind that.
Wave ==
  /\ depth < maxDepth
  /\ Len(queue) = level + nextLevel
  /\ \A k \in Nat : k < depth => Within[k] \subseteq seen
  /\ seen \subseteq Within[depth]
  /\ Within[depth] \subseteq seen \cup Rest
  /\ \A url \in Rest : InScope(url) => url \in Within[depth]
  /\ Onward(fetched) \subseteq seen \cup Rest \cup Following
  /\ \A url \in Following : InScope(url) => url \in Onward(fetched)

CrawlTyped ==
  /\ site \in Sites /\ maxDepth \in Depths
  /\ cpc \in {"idle", "crawl", "found", "download", "fetch", "returned"}
  /\ depth \in Nat /\ depth <= maxDepth /\ level \in Nat /\ nextLevel \in Nat
  /\ queue \in Seq(Urls)
  /\ fetched \subseteq seen
  /\ cpc = "idle" => depth = 0 /\ nextLevel = 0 /\ seen = {} /\ artifacts = <<>>

Listed ==
  /\ artifacts \in Seq(seen)
  /\ Range(artifacts) = {url \in seen : IsArtifact(url)}
  /\ IsFiniteSet(Range(artifacts)) /\ Cardinality(Range(artifacts)) = Len(artifacts)

CrawlInv ==
  /\ CrawlTyped
  /\ Listed
  /\ cpc = "crawl" => Wave
  /\ cpc \notin {"idle", "crawl"} => seen = Within[maxDepth - 1]

\* What becomes of the first l members of a queue q, and of those behind them, when
\* the first is taken and t is added.
Advances(S, q, l, t, r) ==
  /\ r \in Seq(S) /\ Len(r) = Len(q) - 1 + Len(t)
  /\ {q[i] : i \in 1..l} = {Head(q)} \cup {r[i] : i \in 1..l - 1}
  /\ {r[i] : i \in l..Len(r)} = {q[i] : i \in l + 1..Len(q)} \cup Range(t)

LEMMA HeadTaken ==
  ASSUME NEW S, NEW q \in Seq(S), q # <<>>, NEW t \in Seq(S), NEW l \in 1..Len(q)
  PROVE  Advances(S, q, l, t, Tail(q) \o t)
<1> DEFINE r == Tail(q) \o t
<1>1. /\ Tail(q) \in Seq(S) /\ Len(Tail(q)) = Len(q) - 1 /\ Len(q) \in Nat /\ Len(t) \in Nat
      /\ \A i \in 1..Len(q) - 1 : Tail(q)[i] = q[i + 1]
      /\ Head(q) = q[1]
  OBVIOUS
<1> DEFINE u == Tail(q)
<1> HIDE DEF u
<1>2. /\ r \in Seq(S) /\ Len(r) = Len(u) + Len(t)
      /\ \A i \in 1..Len(u) : r[i] = u[i]
      /\ \A i \in Len(u) + 1..Len(u) + Len(t) : r[i] = t[i - Len(u)]
  BY <1>1 DEF u
<1>3. r \in Seq(S) /\ Len(r) = Len(q) - 1 + Len(t)
  BY <1>1, <1>2 DEF u
<1>4. \A i \in 1..Len(q) - 1 : r[i] = q[i + 1]
  BY <1>1, <1>2 DEF u
<1>5. \A i \in Len(q)..Len(r) : r[i] = t[i - (Len(q) - 1)]
  BY <1>1, <1>2, <1>3 DEF u
<1>6. {q[i] : i \in 1..l} = {Head(q)} \cup {r[i] : i \in 1..l - 1}
  <2>1. ASSUME NEW i \in 1..l
        PROVE  q[i] = Head(q) \/ \E j \in 1..l - 1 : q[i] = r[j]
    <3>1. CASE i = 1
      BY <1>1, <3>1
    <3>2. CASE i # 1
      <4>1. i - 1 \in 1..l - 1 /\ i - 1 \in 1..Len(q) - 1 /\ (i - 1) + 1 = i
        BY <1>1, <3>2
      <4>2. q[i] = r[i - 1]
        BY <1>4, <4>1
      <4> QED BY <4>1, <4>2
    <3> QED BY <3>1, <3>2
  <2>2. ASSUME NEW j \in 1..l - 1
        PROVE  \E i \in 1..l : r[j] = q[i]
    <3>1. j \in 1..Len(q) - 1 /\ j + 1 \in 1..l
      BY <1>1
    <3>2. r[j] = q[j + 1]
      BY <1>4, <3>1
    <3> QED BY <3>1, <3>2
  <2>3. 1 \in 1..l /\ q[1] = Head(q)
    BY <1>1
  <2> DEFINE A == {q[i] : i \in 1..l}
             B == {r[i] : i \in 1..l - 1}
  <2>4. A \subseteq {Head(q)} \cup B
    BY <2>1
  <2>5. B \subseteq A
    BY <2>2
  <2>6. Head(q) \in A
    BY <2>3
  <2> HIDE DEF A, B
  <2>7. A = {Head(q)} \cup B
    BY <2>4, <2>5, <2>6
  <2> QED BY <2>7 DEF A, B
<1>7. {r[i] : i \in l..Len(r)} = {q[i] : i \in l + 1..Len(q)} \cup Range(t)
  <2>1. DOMAIN t = 1..Len(t)
    OBVIOUS
  <2>2. ASSUME NEW i \in l..Len(r)
        PROVE  (\E j \in l + 1..Len(q) : r[i] = q[j]) \/ (\E j \in 1..Len(t) : r[i] = t[j])
    <3>1. CASE i <= Len(q) - 1
      <4>1. i \in 1..Len(q) - 1 /\ i + 1 \in l + 1..Len(q)
        BY <1>1, <1>3, <3>1
      <4>2. r[i] = q[i + 1]
        BY <1>4, <4>1
      <4> QED BY <4>1, <4>2
    <3>2. CASE i > Len(q) - 1
      <4>1. i \in Len(q)..Len(r) /\ i - (Len(q) - 1) \in 1..Len(t)
        BY <1>1, <1>3, <3>2
      <4>2. r[i] = t[i - (Len(q) - 1)]
        BY <1>5, <4>1
      <4> QED BY <4>1, <4>2
    <3> QED BY <1>1, <3>1, <3>2
  <2>3. ASSUME NEW j \in l + 1..Len(q)
        PROVE  \E i \in l..Len(r) : q[j] = r[i]
    <3>1. j - 1 \in 1..Len(q) - 1 /\ (j - 1) + 1 = j /\ j - 1 \in l..Len(r)
      BY <1>1, <1>3
    <3>2. r[j - 1] = q[j]
      BY <1>4, <3>1
    <3> QED BY <3>1, <3>2
  <2>4. ASSUME NEW j \in 1..Len(t)
        PROVE  \E i \in l..Len(r) : t[j] = r[i]
    <3>1. /\ j + (Len(q) - 1) \in Len(q)..Len(r) /\ (j + (Len(q) - 1)) - (Len(q) - 1) = j
          /\ j + (Len(q) - 1) \in l..Len(r)
      BY <1>1, <1>3
    <3>2. r[j + (Len(q) - 1)] = t[j]
      BY <1>5, <3>1
    <3> QED BY <3>1, <3>2
  <2> DEFINE A == {r[i] : i \in l..Len(r)}
             B == {q[i] : i \in l + 1..Len(q)}
             C == {t[i] : i \in 1..Len(t)}
  <2>5. A \subseteq B \cup C
    BY <2>2
  <2>6. B \subseteq A
    BY <2>3
  <2>7. C \subseteq A
    BY <2>4
  <2>8. Range(t) = C
    BY <2>1 DEF Range
  <2> HIDE DEF A, B, C
  <2>9. A = B \cup C
    BY <2>5, <2>6, <2>7
  <2> QED BY <2>8, <2>9 DEF A, B
<1> QED BY <1>3, <1>6, <1>7 DEF Advances

\* Taking the first URL of the queue.
LEMMA TakenFromQueue ==
  ASSUME CrawlTyped, Taking, Len(queue) = level + nextLevel, Taken, UNCHANGED site,
         NEW links \in Seq(Urls), queue' = Tail(queue) \o links
  PROVE  /\ Url \in Rest /\ Url \in Urls
         /\ queue' \in Seq(Urls') /\ level' \in Nat
         /\ Len(queue') = level' + nextLevel + Len(links)
         /\ Rest = {Url} \cup Rest'
         /\ Following' = Following \cup Range(links)
<1> DEFINE U == Urls
<1>1. queue \in Seq(U) /\ queue # <<>> /\ level \in Nat /\ level > 0 /\ nextLevel \in Nat /\ links \in Seq(U)
  BY DEF CrawlTyped, Taking
<1>2. U' = U
  BY DEF Urls
<1> HIDE DEF U
<1>3. level \in 1..Len(queue) /\ level' = level - 1 /\ (level - 1) + 1 = level
  BY <1>1 DEF Taken
<1>4. /\ queue' \in Seq(U) /\ Len(queue') = Len(queue) - 1 + Len(links)
      /\ {queue[i] : i \in 1..level} = {Head(queue)} \cup {queue'[i] : i \in 1..level - 1}
      /\ {queue'[i] : i \in level..Len(queue')} = {queue[i] : i \in level + 1..Len(queue)} \cup Range(links)
  <2>1. Advances(U, queue, level, links, Tail(queue) \o links)
    BY <1>1, <1>3, HeadTaken
  <2> QED BY <2>1 DEF Advances
<1>5. Head(queue) \in U
  BY <1>1
<1>6. Rest = {Url} \cup Rest' /\ Following' = Following \cup Range(links)
  BY <1>3, <1>4 DEF Rest, Following, Url
<1>7. Len(links) \in Nat /\ Len(queue') = level' + nextLevel + Len(links)
  BY <1>1, <1>3, <1>4
<1>8. level' \in Nat
  BY <1>1, <1>3
<1> QED BY <1>2, <1>4, <1>5, <1>6, <1>7, <1>8 DEF U, Url

\* What a step at the head of the queue makes of it: an excluded URL is dropped, a
\* file or a page without an answer is seen, and the links of a page are queued.
Drops(links) == Excluded(Url) /\ UNCHANGED <<seen, fetched>> /\ links = <<>>
Sees(links) == ~Excluded(Url) /\ seen' = seen \cup {Url} /\ UNCHANGED fetched /\ links = <<>>
Reads(links) == ~Excluded(Url) /\ seen' = seen \cup {Url} /\ fetched' = fetched \cup {Url} /\ links = NewLinks(Url)

\* Taking a URL keeps the wave.
LEMMA WaveTaken ==
  ASSUME CrawlTyped, Wave, Taking, Taken, UNCHANGED <<site, maxDepth, depth>>,
         NEW links \in Seq(Urls), Drops(links) \/ Sees(links) \/ Reads(links),
         queue' = Tail(queue) \o links, nextLevel' = nextLevel + Len(links)
  PROVE  /\ Wave'
         /\ queue' \in Seq(Urls') /\ level' \in Nat /\ nextLevel' \in Nat
         /\ fetched' \subseteq seen'
<1>1. depth \in Nat /\ nextLevel \in Nat /\ level \in Nat /\ fetched \subseteq seen /\ site \in Sites
  BY DEF CrawlTyped
<1>2. Len(links) \in Nat
  OBVIOUS
<1>3. /\ Url \in Rest /\ queue' \in Seq(Urls') /\ level' \in Nat
      /\ Len(queue') = level' + nextLevel + Len(links)
      /\ Rest = {Url} \cup Rest' /\ Following' = Following \cup Range(links)
  BY TakenFromQueue DEF Wave
<1>4. nextLevel' \in Nat /\ Len(queue') = level' + nextLevel'
  BY <1>1, <1>2, <1>3
<1>5. /\ depth < maxDepth
      /\ \A k \in Nat : k < depth => Within[k] \subseteq seen
      /\ seen \subseteq Within[depth] /\ Within[depth] \subseteq seen \cup Rest
      /\ \A url \in Rest : InScope(url) => url \in Within[depth]
      /\ Onward(fetched) \subseteq seen \cup Rest \cup Following
      /\ \A url \in Following : InScope(url) => url \in Onward(fetched)
  BY DEF Wave
<1>6. \A k \in Nat : k <= depth => Within'[k] = Within[k]
  <2>1. CASE fetched' = fetched
    BY <1>1, <2>1, WithinSame
  <2>2. CASE Reads(links)
    <3> DEFINE page == Url
    <3>1. page \notin seen /\ fetched' = fetched \cup {page}
      BY <2>2 DEF Reads, Excluded
    <3>2. \A k \in Nat : k < depth => page \notin Within[k]
      BY <1>5, <3>1
    <3> HIDE DEF page
    <3> QED BY <1>1, <3>1, <3>2, WithinSame
  <2> QED BY <2>1, <2>2 DEF Drops, Sees
<1>7. /\ seen \subseteq seen' /\ seen' \subseteq seen \cup {Url}
      /\ InScope(Url) => Url \in seen'
      /\ Url \in seen' => Url \in seen \/ InScope(Url)
  BY DEF Drops, Sees, Reads, Excluded, InScope
<1>8. \A url : InScope(url)' = InScope(url)
  BY DEF InScope
<1>9. \A url \in Within[depth] \cup Onward(fetched) : InScope(url)
  BY <1>1, WithinScope DEF Onward
<1>10. /\ Onward(fetched) \subseteq Onward(fetched)'
       /\ Onward(fetched)' \subseteq Onward(fetched) \cup seen' \cup Range(links)
       /\ \A url \in Range(links) : InScope(url) => url \in Onward(fetched)'
  <2>1. \A url : Links(url)' = Links(url)
    BY DEF Links
  <2>2. CASE fetched' = fetched /\ links = <<>>
    <3>1. Onward(fetched)' = Onward(fetched)
      BY <1>8, <2>1, <2>2 DEF Onward
    <3>2. Range(links) = {}
      BY <2>2 DEF Range
    <3> QED BY <3>1, <3>2
  <2>3. CASE Reads(links)
    <3>1. Range(links) = {link \in Range(Links(Url)) : IsPrefix(Url, link) /\ link \notin seen \cup {Url}}
      BY <1>1, <2>3, NewLinksAre DEF Reads
    <3> DEFINE page == Url
    <3>2. fetched' = fetched \cup {page} /\ seen' = seen \cup {page}
      BY <2>3 DEF Reads
    <3>3. Range(links) = {link \in Range(Links(page)) : IsPrefix(page, link) /\ link \notin seen \cup {page}}
      BY <3>1
    <3> HIDE DEF page
    <3>4. ASSUME NEW url
          PROVE  url \in Onward(fetched)' <=>
                 \/ url \in Onward(fetched)
                 \/ InScope(url) /\ url \in Range(Links(page)) /\ IsPrefix(page, url)
      <4>1. url \in Onward(fetched)' <=> InScope(url) /\ \E p \in fetched' : url \in Range(Links(p)) /\ IsPrefix(p, url)
        BY <1>8, <2>1 DEF Onward
      <4>2. url \in Onward(fetched) <=> InScope(url) /\ \E p \in fetched : url \in Range(Links(p)) /\ IsPrefix(p, url)
        BY DEF Onward
      <4> QED BY <3>2, <4>1, <4>2
    <3> QED BY <3>2, <3>3, <3>4
  <2> QED BY <2>2, <2>3 DEF Drops, Sees
<1>11. fetched' \subseteq seen'
  BY <1>1 DEF Drops, Sees, Reads
<1>12. Within'[depth] = Within[depth] /\ depth' = depth /\ maxDepth' = maxDepth
  BY <1>1, <1>6
<1>13. \A k \in Nat : k < depth => Within'[k] \subseteq seen'
  BY <1>1, <1>5, <1>6, <1>7
<1>14. seen' \subseteq Within[depth] /\ Within[depth] \subseteq seen' \cup Rest'
  BY <1>3, <1>5, <1>7, <1>9
<1>15. \A url \in Rest' : InScope(url)' => url \in Within[depth]
  BY <1>3, <1>5, <1>8
<1>16. Onward(fetched)' \subseteq seen' \cup Rest' \cup Following'
  BY <1>3, <1>5, <1>7, <1>9, <1>10
<1>17. \A url \in Following' : InScope(url)' => url \in Onward(fetched)'
  BY <1>3, <1>5, <1>8, <1>10
<1>18. Wave'
  BY <1>4, <1>5, <1>12, <1>13, <1>14, <1>15, <1>16, <1>17 DEF Wave
<1> QED BY <1>3, <1>4, <1>11, <1>18

\* Seeing a URL keeps the list of the artifacts.
LEMMA ListedSeen ==
  ASSUME Listed, NEW url, url \notin seen, seen' = seen \cup {url},
         artifacts' = IF IsArtifact(url) THEN Append(artifacts, url) ELSE artifacts
  PROVE  Listed'
<1>1. \A u : IsArtifact(u)' = IsArtifact(u)
  BY DEF IsArtifact
<1>2. artifacts \in Seq(seen) /\ Range(artifacts) = {u \in seen : IsArtifact(u)}
  BY DEF Listed
<1> DEFINE S == seen
           T == seen'
<1>3. S \subseteq T /\ artifacts \in Seq(S) /\ url \in T
  BY <1>2
<1> HIDE DEF S, T
<1>4. artifacts \in Seq(T)
  BY <1>3
<1>5. CASE IsArtifact(url)
  <2>1. artifacts' = Append(artifacts, url)
    BY <1>5
  <2>2. artifacts' \in Seq(T) /\ Len(artifacts') = Len(artifacts) + 1
    BY <1>3, <1>4, <2>1
  <2>3. Range(artifacts') = Range(artifacts) \cup {url}
    <3>1. DOMAIN artifacts' = 1..Len(artifacts) + 1 /\ DOMAIN artifacts = 1..Len(artifacts) /\ Len(artifacts) \in Nat
      BY <1>4, <2>1
    <3>2. artifacts'[Len(artifacts) + 1] = url /\ \A i \in 1..Len(artifacts) : artifacts'[i] = artifacts[i]
      BY <1>4, <2>1
    <3>3. \A i \in 1..Len(artifacts) + 1 : i \in 1..Len(artifacts) \/ i = Len(artifacts) + 1
      BY <3>1
    <3>4. \A i \in 1..Len(artifacts) : i \in 1..Len(artifacts) + 1
      BY <3>1
    <3>5. Len(artifacts) + 1 \in 1..Len(artifacts) + 1
      BY <3>1
    <3> QED BY <3>1, <3>2, <3>3, <3>4, <3>5 DEF Range
  <2>4. url \notin Range(artifacts)
    BY <1>2
  <2>5. IsFiniteSet(Range(artifacts')) /\ Cardinality(Range(artifacts')) = Len(artifacts')
    <3> DEFINE R == Range(artifacts)
    <3>1. IsFiniteSet(R) /\ Cardinality(R) = Len(artifacts) /\ url \notin R
      BY <2>4 DEF Listed
    <3> HIDE DEF R
    <3>2. IsFiniteSet(R \cup {url}) /\ Cardinality(R \cup {url}) = Cardinality(R) + 1
      BY <3>1, FS_AddElement
    <3> QED BY <2>2, <2>3, <3>1, <3>2 DEF R
  <2>6. Range(artifacts') = {u \in seen' : IsArtifact(u)'}
    BY <1>1, <1>2, <1>5, <2>3
  <2> QED BY <2>2, <2>5, <2>6 DEF Listed, T
<1>6. CASE ~IsArtifact(url)
  <2>1. artifacts' = artifacts
    BY <1>6
  <2>2. Range(artifacts') = {u \in seen' : IsArtifact(u)'}
    BY <1>1, <1>2, <1>6, <2>1
  <2>3. artifacts' \in Seq(T)
    BY <1>4, <2>1
  <2> QED BY <2>1, <2>2, <2>3 DEF Listed, T
<1> QED BY <1>5, <1>6

\* What has been crawled is not changed by a step that reads no page.
LEMMA WithinKept ==
  ASSUME UNCHANGED <<site, fetched>>
  PROVE  /\ \A k \in Nat : Within'[k] = Within[k]
         /\ Onward(fetched)' = Onward(fetched)
         /\ \A url : InScope(url)' = InScope(url)
<1>1. \A k \in Nat : Within'[k] = Within[k]
  BY WithinSame
<1>2. \A url : InScope(url)' = InScope(url)
  BY DEF InScope
<1>3. \A url : Links(url)' = Links(url)
  BY DEF Links
<1>4. Onward(fetched)' = Onward(fetched)
  BY <1>2, <1>3 DEF Onward
<1> QED BY <1>1, <1>2, <1>4

LEMMA CrawlUntouched ==
  ASSUME CrawlInv, UNCHANGED <<site, maxDepth, crawlVars>>,
         \/ cpc' = cpc
         \/ cpc \notin {"idle", "crawl"} /\ cpc' \in {"found", "download", "fetch", "returned"}
  PROVE  CrawlInv'
<1>1. /\ \A k \in Nat : Within'[k] = Within[k]
      /\ Onward(fetched)' = Onward(fetched)
      /\ \A url : InScope(url)' = InScope(url)
  BY WithinKept DEF crawlVars
<1>2. CrawlTyped'
  BY DEF CrawlInv, CrawlTyped, crawlVars, Urls
<1>3. Listed'
  BY DEF CrawlInv, Listed, crawlVars, IsArtifact
<1>4. maxDepth - 1 \in Nat /\ depth \in Nat /\ maxDepth' = maxDepth /\ depth' = depth
  BY DepthsArePositive DEF CrawlInv, CrawlTyped, crawlVars
<1>5. cpc' \notin {"idle", "crawl"} => seen' = Within'[maxDepth' - 1]
  <2> SUFFICES ASSUME cpc' \notin {"idle", "crawl"}
               PROVE  seen' = Within'[maxDepth' - 1]
    OBVIOUS
  <2>1. seen = Within[maxDepth - 1]
    BY DEF CrawlInv
  <2> QED BY <1>1, <1>4, <2>1 DEF crawlVars
<1>6. cpc' = "crawl" => Wave'
  <2> SUFFICES ASSUME cpc' = "crawl"
               PROVE  Wave'
    OBVIOUS
  <2>1. Wave
    BY DEF CrawlInv
  <2>2. Rest' = Rest /\ Following' = Following
    BY DEF Rest, Following, crawlVars
  <2>3. UNCHANGED <<queue, depth, level, nextLevel, seen, maxDepth>>
    BY DEF crawlVars
  <2>4. Within'[depth'] = Within[depth]
    BY <1>1, <1>4
  <2> QED BY <1>1, <2>1, <2>2, <2>3, <2>4 DEF Wave
<1> QED BY <1>2, <1>3, <1>5, <1>6 DEF CrawlInv

LEMMA CrawlStarted ==
  ASSUME CrawlInv, StartCrawl
  PROVE  CrawlInv'
<1>1. /\ cpc = "idle" /\ cpc' = "crawl" /\ queue' = <<BaseUrl>> /\ level' = 1
      /\ UNCHANGED <<site, maxDepth, depth, nextLevel, seen, artifacts, fetched>>
  BY DEF StartCrawl
<1>2. depth' = 0 /\ nextLevel' = 0 /\ seen' = {} /\ fetched' = {} /\ artifacts' = <<>> /\ maxDepth' \in Nat \ {0}
  BY <1>1, DepthsArePositive DEF CrawlInv, CrawlTyped
<1>3. /\ Within'[0] = Home' /\ Onward(fetched)' = {} /\ \A url : InScope(url)' = InScope(url)
  <2>1. WithinUnfolds'
    BY WithinIsThen
  <2> QED BY <1>2, <2>1 DEF WithinUnfolds, Onward, InScope
<1>4. Rest' = {BaseUrl} /\ Following' = {}
  <2>1. \A i : i \in 1..1 <=> i = 1
    OBVIOUS
  <2>2. queue'[1] = BaseUrl /\ Len(queue') = 1 /\ 2..1 = {}
    BY <1>1
  <2> QED BY <1>1, <2>1, <2>2 DEF Rest, Following
<1>5. Wave'
  <2>1. Len(queue') = level' + nextLevel' /\ depth' < maxDepth'
    BY <1>1, <1>2
  <2>2. \A k \in Nat : ~(k < depth')
    BY <1>2
  <2>3. Within'[depth'] \subseteq Rest' /\ \A url \in Rest' : InScope(url)' => url \in Within'[depth']
    BY <1>2, <1>3, <1>4 DEF Home
  <2> QED BY <1>2, <1>3, <1>4, <2>1, <2>2, <2>3 DEF Wave
<1>6. CrawlTyped'
  <2>1. queue' \in Seq(Urls')
    <3>1. BaseUrl \in Urls'
      BY DEF Urls
    <3> DEFINE U == Urls'
    <3> HIDE DEF U
    <3>2. <<BaseUrl>> \in Seq(U)
      BY <3>1 DEF U
    <3> QED BY <1>1, <3>2 DEF U
  <2> QED BY <1>1, <1>2, <2>1 DEF CrawlInv, CrawlTyped
<1>7. Listed'
  BY <1>1 DEF CrawlInv, Listed, IsArtifact
<1> QED BY <1>1, <1>5, <1>6, <1>7 DEF CrawlInv

LEMMA UrlTaken ==
  ASSUME CrawlInv, TakeExcluded \/ TakeFile \/ TakePage
  PROVE  CrawlInv'
<1>1. /\ Taking /\ Taken /\ cpc = "crawl" /\ UNCHANGED <<cpc, site, maxDepth, depth>>
      /\ CrawlTyped /\ Wave /\ Listed
  BY DEF TakeExcluded, TakeFile, TakePage, CrawlInv, Taking
<1> DEFINE Of(links) ==
             /\ links \in Seq(Urls)
             /\ Drops(links) \/ Sees(links) \/ Reads(links)
             /\ queue' = Tail(queue) \o links /\ nextLevel' = nextLevel + Len(links)
<1>2. ASSUME NEW links, Of(links), Listed'
      PROVE  CrawlInv'
  <2> DEFINE l == links
  <2>1. Of(l)
    BY <1>2
  <2>2. /\ l \in Seq(Urls)
        /\ Drops(l) \/ Sees(l) \/ Reads(l)
        /\ queue' = Tail(queue) \o l /\ nextLevel' = nextLevel + Len(l)
    BY <2>1
  <2> HIDE DEF Of
  <2>3. /\ Wave' /\ queue' \in Seq(Urls') /\ level' \in Nat /\ nextLevel' \in Nat
        /\ fetched' \subseteq seen'
    BY <1>1, <2>2, WaveTaken
  <2>4. CrawlTyped'
    BY <1>1, <2>3 DEF CrawlTyped
  <2> QED BY <1>1, <1>2, <2>3, <2>4 DEF CrawlInv
<1>3. /\ <<>> \in Seq(Urls) /\ Len(<<>>) = 0 /\ nextLevel + 0 = nextLevel
      /\ Tail(queue) \o <<>> = Tail(queue)
  <2>1. nextLevel \in Nat /\ queue \in Seq(Urls) /\ queue # <<>>
    BY <1>1 DEF CrawlTyped, Taking
  <2> DEFINE U == Urls
  <2>2. queue \in Seq(U)
    BY <2>1
  <2> HIDE DEF U
  <2>3. Tail(queue) \in Seq(U)
    BY <2>1, <2>2
  <2>4. \A s \in Seq(U) : s \o <<>> = s
    OBVIOUS
  <2>5. <<>> \in Seq(U)
    OBVIOUS
  <2> QED BY <2>1, <2>3, <2>4, <2>5 DEF U
<1>4. CASE TakeExcluded
  <2>1. Listed'
    BY <1>1, <1>4 DEF TakeExcluded, Listed, IsArtifact
  <2>2. Of(<<>>)
    BY <1>3, <1>4 DEF TakeExcluded, Drops
  <2> HIDE DEF Of
  <2> QED BY <1>2, <2>1, <2>2
<1>5. CASE TakeFile
  <2>1. Listed'
    <3> DEFINE u == Url
    <3>1. u \notin seen /\ seen' = seen \cup {u} /\ artifacts' = IF IsArtifact(u) THEN Append(artifacts, u) ELSE artifacts
      BY <1>5 DEF TakeFile, Excluded
    <3> HIDE DEF u
    <3> QED BY <1>1, <3>1, ListedSeen
  <2>2. Of(<<>>)
    BY <1>3, <1>5 DEF TakeFile, Sees
  <2> HIDE DEF Of
  <2> QED BY <1>2, <2>1, <2>2
<1>6. CASE TakePage
  <2>1. Listed'
    <3> DEFINE u == Url
    <3>1. u \notin seen /\ seen' = seen \cup {u} /\ artifacts' = artifacts /\ ~IsArtifact(u)
      BY <1>6 DEF TakePage, Excluded, IsFile, IsArtifact
    <3> HIDE DEF u
    <3>2. artifacts' = IF IsArtifact(u) THEN Append(artifacts, u) ELSE artifacts
      BY <3>1
    <3> QED BY <1>1, <3>1, <3>2, ListedSeen
  <2>2. PICK answers \in BOOLEAN :
          /\ queue' = Tail(queue) \o IF answers THEN NewLinks(Url) ELSE <<>>
          /\ nextLevel' = nextLevel + Len(IF answers THEN NewLinks(Url) ELSE <<>>)
          /\ fetched' = IF answers THEN fetched \cup {Url} ELSE fetched
    BY <1>6 DEF TakePage
  <2>3. ~Excluded(Url) /\ seen' = seen \cup {Url}
    BY <1>6 DEF TakePage
  <2>4. CASE answers
    <3>1. NewLinks(Url) \in Seq(Urls)
      BY <1>1, NewLinksAre DEF CrawlTyped
    <3>2. Of(NewLinks(Url))
      BY <2>2, <2>3, <2>4, <3>1 DEF Reads
    <3> HIDE DEF Of
    <3> QED BY <1>2, <2>1, <3>2
  <2>5. CASE ~answers
    <3>1. Of(<<>>)
      BY <1>3, <2>2, <2>3, <2>5 DEF Sees
    <3> HIDE DEF Of
    <3> QED BY <1>2, <2>1, <3>1
  <2> QED BY <2>4, <2>5
<1> QED BY <1>4, <1>5, <1>6

LEMMA LevelEnded ==
  ASSUME CrawlInv, EndLevel
  PROVE  CrawlInv'
<1>1. /\ cpc = "crawl" /\ (level = 0 \/ queue = <<>>)
      /\ depth' = depth + 1 /\ level' = nextLevel /\ nextLevel' = 0
      /\ cpc' = IF queue = <<>> \/ depth' = maxDepth THEN "found" ELSE cpc
      /\ UNCHANGED <<site, maxDepth, queue, seen, artifacts, fetched>>
  BY DEF EndLevel
<1>2. /\ Wave /\ depth \in Nat /\ level \in Nat /\ nextLevel \in Nat /\ maxDepth \in Nat /\ depth < maxDepth
      /\ Len(queue) = level + nextLevel /\ fetched \subseteq seen
  BY <1>1, DepthsArePositive DEF CrawlInv, CrawlTyped, Wave
<1>3. level = 0
  BY <1>1, <1>2
<1>4. Rest = {} /\ Following = {queue[i] : i \in 1..nextLevel} /\ Len(queue) = nextLevel
  <2>1. 1..0 = {} /\ Len(queue) = nextLevel /\ 0 + 1 = 1
    BY <1>2, <1>3
  <2> QED BY <1>3, <2>1 DEF Rest, Following
<1>5. Rest' = Following /\ Following' = {}
  <2>1. nextLevel + 1..Len(queue) = {}
    BY <1>2, <1>4
  <2> QED BY <1>1, <1>4, <2>1 DEF Rest, Following
<1>6. /\ \A k \in Nat : Within'[k] = Within[k]
      /\ Onward(fetched)' = Onward(fetched)
      /\ \A url : InScope(url)' = InScope(url)
  BY <1>1, WithinKept
<1>7. seen = Within[depth]
  BY <1>2, <1>4 DEF Wave
<1>8. Within[depth + 1] = seen \cup Onward(fetched)
  <2>1. Onward(seen) = Onward(fetched)
    <3>1. seen \cap fetched = fetched /\ fetched \cap fetched = fetched
      BY <1>2
    <3> QED BY <3>1 DEF Onward
  <2>2. Within[depth + 1] = Within[depth] \cup Onward(Within[depth])
    BY <1>2, WithinIs DEF WithinUnfolds
  <2> QED BY <1>7, <2>1, <2>2
<1>9. CrawlTyped'
  BY <1>1, <1>2 DEF CrawlInv, CrawlTyped, Urls
<1>10. Listed'
  BY <1>1 DEF CrawlInv, Listed, IsArtifact
<1>11. ASSUME cpc' = "crawl"
       PROVE  Wave'
  <2>1. depth' < maxDepth' /\ Len(queue') = level' + nextLevel'
    BY <1>1, <1>2, <1>4, <1>11
  <2>2. ASSUME NEW k \in Nat, k < depth'
        PROVE  Within'[k] \subseteq seen'
    <3>1. k <= depth
      BY <1>1, <1>2, <2>2
    <3> QED BY <1>1, <1>2, <1>6, <1>7, <3>1, WithinGrows
  <2>3. Within'[depth'] = seen \cup Onward(fetched)
    BY <1>1, <1>2, <1>6, <1>8
  <2>4. Onward(fetched) \subseteq seen \cup Following
    BY <1>2, <1>4 DEF Wave
  <2>5. \A url \in Following : InScope(url) => url \in Onward(fetched)
    BY <1>2 DEF Wave
  <2> QED BY <1>1, <1>5, <1>6, <2>1, <2>2, <2>3, <2>4, <2>5 DEF Wave
<1>12. ASSUME cpc' # "crawl"
       PROVE  seen' = Within'[maxDepth' - 1]
  <2>1. CASE depth' = maxDepth
    BY <1>1, <1>2, <1>6, <1>7, <2>1
  <2>2. CASE queue = <<>>
    <3>1. nextLevel = 0 /\ Following = {}
      BY <1>2, <1>4, <2>2
    <3>2. Onward(fetched) \subseteq seen
      BY <1>2, <1>4, <3>1 DEF Wave
    <3>3. Within[depth + 1] \subseteq Within[depth]
      BY <1>7, <1>8, <3>2
    <3>4. maxDepth - 1 \in Nat /\ depth <= maxDepth - 1
      BY <1>2
    <3>5. Within[maxDepth - 1] = Within[depth]
      BY <1>2, <3>3, <3>4, WithinEnds
    <3> QED BY <1>1, <1>6, <1>7, <3>4, <3>5
  <2> QED BY <1>1, <1>12, <2>1, <2>2
<1>13. cpc' # "idle"
  BY <1>1
<1> QED BY <1>9, <1>10, <1>11, <1>12, <1>13 DEF CrawlInv

LEMMA CrawlKept ==
  ASSUME CrawlInv, [Next]_vars
  PROVE  CrawlInv'
<1>1. CASE StartCrawl
  BY <1>1, CrawlStarted
<1>2. CASE TakeExcluded \/ TakeFile \/ TakePage
  BY <1>2, UrlTaken
<1>3. CASE EndLevel
  BY <1>3, LevelEnded
<1>4. CASE Found \/ BeginDownload \/ EndDownload \/ EndBulk
  <2>1. UNCHANGED <<site, maxDepth, crawlVars>>
    BY <1>4 DEF Found, BeginDownload, EndDownload, EndBulk
  <2>2. cpc \notin {"idle", "crawl"} /\ cpc' \in {"found", "download", "fetch", "returned"}
    BY <1>4 DEF Found, BeginDownload, EndDownload, EndBulk
  <2> QED BY <2>1, <2>2, CrawlUntouched
<1>5. CASE UNCHANGED bulkVars
  BY <1>5, CrawlUntouched DEF bulkVars
<1>6. CrawlNext \/ UNCHANGED bulkVars
  BY DEF Next, Executing, Settling, Claim, RunArchive, RunMail, RunBulk, DeletePackage, StoreResult, HandlerRaises,
         StoreFails, RecordError, RecordErrorFails, Stopped, Killed, vars
<1> QED BY <1>1, <1>2, <1>3, <1>4, <1>5, <1>6 DEF CrawlNext

LEMMA InitCrawl == Init => CrawlInv
<1> SUFFICES ASSUME Init
             PROVE  CrawlInv
  OBVIOUS
<1>1. CrawlInit
  BY DEF Init
<1>2. CrawlTyped
  <2> DEFINE U == Urls
  <2> HIDE DEF U
  <2>1. <<>> \in Seq(U)
    OBVIOUS
  <2> QED BY <1>1, <2>1, DepthsArePositive DEF CrawlInit, CrawlTyped, U
<1>3. Listed
  <2>1. Range(<<>>) = {} /\ <<>> \in Seq({}) /\ Len(<<>>) = 0
    BY DEF Range
  <2> QED BY <1>1, <2>1, FS_EmptySet DEF CrawlInit, Listed
<1> QED BY <1>1, <1>2, <1>3 DEF CrawlInit, CrawlInv

\* For every site, depth, pattern and way the requests fail: when the crawl is over,
\* it has seen exactly the URLs in scope that fewer than maxDepth links lead to,
\* and lists each artifact among them once.
THEOREM CrawlsAreExact == Spec => []CrawlIsExact
<1>1. CrawlInv => CrawlIsExact
  BY DEF CrawlInv, Listed, CrawlIsExact
<1>2. Init => CrawlInv
  BY InitCrawl
<1>3. CrawlInv /\ [Next]_vars => CrawlInv'
  BY CrawlKept
<1> QED BY <1>1, <1>2, <1>3, PTL DEF Spec

-----------------------------------------------------------------------------
(* The mail *)

\* The text is read from its beginning at every attempt, and an attempt leaves at
\* most one copy.
MailInv ==
  /\ MailTypeOK
  /\ mpc = "idle" => hosts = 0 /\ tried = 0
  /\ mpc # "returned" => reader = "start"
  /\ inbox \in Seq({"whole"}) /\ Len(inbox) <= tried

\* The relay has accepted another whole copy, or none.
LEMMA OneCopy ==
  ASSUME inbox \in Seq({"whole"}), Len(inbox) <= tried, tried \in Nat, inbox' \in {inbox, Append(inbox, "whole")}
  PROVE  /\ inbox' \in Seq({"whole"}) /\ inbox' \in Seq({"whole", "empty"})
         /\ Len(inbox') <= tried + 1
<1>1. CASE inbox' = inbox
  <2>1. Len(inbox) \in Nat
    OBVIOUS
  <2> QED BY <1>1, <2>1
<1>2. CASE inbox' = Append(inbox, "whole")
  <2>1. inbox' \in Seq({"whole"}) /\ Len(inbox') = Len(inbox) + 1 /\ Len(inbox) \in Nat
    BY <1>2
  <2> QED BY <2>1
<1> QED BY <1>1, <1>2

LEMMA MailKept ==
  ASSUME MailInv, MailNext
  PROVE  MailInv'
<1> USE HostsBound
<1>1. /\ recipient \in {"dev", "other"} /\ mpc \in {"idle", "send", "returned"} /\ hosts \in 0..MaxHosts /\ tried \in 0..hosts
      /\ mailAnswer \in {"none", "completed", "failed"}
      /\ inbox \in Seq({"whole"}) /\ inbox \in Seq({"whole", "empty"}) /\ Len(inbox) <= tried
  BY DEF MailInv, MailTypeOK
<1>2. CASE MailRefused
  BY <1>1, <1>2 DEF MailInv, MailTypeOK, MailRefused, MailReturns
<1>3. CASE Resolve
  <2>1. hosts' \in 0..MaxHosts /\ tried' \in 0..hosts' /\ mpc' = "send"
    BY <1>1, <1>3 DEF Resolve, MailInv
  <2>2. UNCHANGED <<recipient, tried, reader, inbox, mailAnswer>> /\ reader = "start"
    BY <1>3 DEF Resolve, MailInv
  <2> QED BY <1>1, <2>1, <2>2 DEF MailInv, MailTypeOK
<1>4. CASE Raises \/ Sends
  <2>1. /\ mpc = "send" /\ tried < hosts /\ tried' = tried + 1 /\ inbox' \in {inbox, Append(inbox, Text)}
        /\ UNCHANGED <<recipient, hosts>> /\ reader' \in {"start", "end"}
    BY <1>4 DEF Raises, Sends
  <2>2. Text = "whole"
    BY <2>1 DEF Text, MailInv
  <2>3. /\ inbox' \in Seq({"whole"}) /\ inbox' \in Seq({"whole", "empty"})
        /\ Len(inbox') <= tried + 1
    BY <1>1, <2>1, <2>2, OneCopy
  <2>4. /\ mpc' \in {"send", "returned"} /\ mailAnswer' \in {"none", "completed", "failed"}
        /\ mpc' # "returned" => reader' = "start"
    BY <1>1, <1>4, <2>1 DEF Raises, Sends, MailReturns
  <2>5. tried' \in 0..hosts'
    BY <1>1, <2>1
  <2> QED BY <1>1, <2>1, <2>3, <2>4, <2>5 DEF MailInv, MailTypeOK
<1> QED BY <1>2, <1>3, <1>4 DEF MailNext

LEMMA MailInvKept ==
  ASSUME MailInv, [Next]_vars
  PROVE  MailInv'
<1>1. CASE RunMail
  BY <1>1, MailKept DEF RunMail
<1>2. CASE UNCHANGED mailVars
  BY <1>2 DEF MailInv, MailTypeOK, mailVars
<1>3. RunMail \/ UNCHANGED mailVars
  BY DEF Next, Executing, Settling, Claim, RunArchive, RunBulk, DeletePackage, StoreResult, HandlerRaises,
         StoreFails, RecordError, RecordErrorFails, Stopped, Killed, vars
<1> QED BY <1>1, <1>2, <1>3

LEMMA InitMail == Init => MailInv
<1> SUFFICES ASSUME Init
             PROVE  MailInv
  OBVIOUS
<1>1. MailInit
  BY DEF Init
<1>2. <<>> \in Seq({"whole"}) /\ <<>> \in Seq({"whole", "empty"}) /\ Len(<<>>) = 0
  OBVIOUS
<1> QED BY <1>1, <1>2, HostsBound DEF MailInit, MailInv, MailTypeOK

\* However the attempts fail, and however many hosts there are: every copy that the
\* relay accepts is whole, and there are no more than attempts.
THEOREM CopiesAreNeverCut == Spec => []CopiesAreWhole
<1>1. MailInv => CopiesAreWhole
  BY DEF MailInv, CopiesAreWhole, Range
<1>2. Init => MailInv
  BY InitMail
<1>3. MailInv /\ [Next]_vars => MailInv'
  BY MailInvKept
<1> QED BY <1>1, <1>2, <1>3, PTL DEF Spec

-----------------------------------------------------------------------------
(* The types *)

LEMMA Percentage ==
  ASSUME NEW n \in Nat \ {0}, NEW p \in Nat, p < n
  PROVE  (100 * p) \div n \in 0..100
<1> DEFINE q == (100 * p) \div n
<1>1. q \in Int /\ n * q <= 100 * p /\ 100 * p < n * (q + 1)
  OBVIOUS
<1> HIDE DEF q
<1>2. q >= 0
  <2> SUFFICES ASSUME q + 1 <= 0
               PROVE  FALSE
    BY <1>1
  <2>1. n * (q + 1) <= 0
    BY <1>1
  <2> QED BY <1>1, <2>1
<1>3. q <= 100
  <2> SUFFICES ASSUME q >= 101
               PROVE  FALSE
    BY <1>1
  <2>1. n * q >= n * 101
    BY <1>1
  <2> QED BY <1>1, <2>1
<1> QED BY <1>1, <1>2, <1>3 DEF q

LEMMA ArchiveTypes ==
  ASSUME ArchiveTypeOK, ArchiveInv', ArchiveNext \/ Delete \/ UNCHANGED archiveVars
  PROVE  ArchiveTypeOK'
<1>1. next' \in Nat /\ total' \in Nat /\ part' \in Nat
  BY DEF ArchiveInv, SizeInv
<1>2. archive' = archive /\ check' = check /\ present' \in BOOLEAN
  BY DEF ArchiveTypeOK, ArchiveNext, ArchiveSteps, CheckIntegrity, StartCheck, FindJar, NoJar, OpenForRoot, ReadAll,
         OpenForExtraction, SkipMember, ExtractDirectory, BeginFile, WriteChunk, EndFile, ExtractionFails, RunTool, ToolFails, ToolSucceeds,
         Delete, archiveVars
<1>3. report' \subseteq Resource
  <2>1. CASE ToolSucceeds
    BY <2>1, ReportsOfResources DEF ToolSucceeds
  <2>2. CASE ~ToolSucceeds
    BY <2>2 DEF ArchiveTypeOK, ArchiveNext, ArchiveSteps, CheckIntegrity, StartCheck, FindJar, NoJar, OpenForRoot, ReadAll,
         OpenForExtraction, SkipMember, ExtractDirectory, BeginFile, WriteChunk, EndFile, ExtractionFails, RunTool, ToolFails, Delete, archiveVars
  <2> QED BY <2>1, <2>2
<1> DEFINE PlaceOK == /\ apc' \in {"idle", "java", "open", "read", "extract", "member", "write", "tool", "returned"}
                      /\ tempDir' \in BOOLEAN /\ cwd' \in {"state", "temp"} /\ answer' \in Answers
<1>14. outside' \subseteq {<<archive'[i].top, archive'[i].base>> : i \in DOMAIN archive'}
  BY DEF ArchiveInv, TreeInv, Name
<1> SUFFICES PlaceOK
  BY <1>1, <1>2, <1>3, <1>14 DEF ArchiveTypeOK
<1>4. /\ apc \in {"idle", "java", "open", "read", "extract", "member", "write", "tool", "returned"}
      /\ tempDir \in BOOLEAN /\ cwd \in {"state", "temp"} /\ answer \in Answers
  BY DEF ArchiveTypeOK
<1>5. ASSUME NEW a \in Answers, Returns(a), cwd' \in {"state", "temp"}
      PROVE  PlaceOK
  BY <1>5 DEF Returns
<1>6. ASSUME UNCHANGED answer, tempDir' \in BOOLEAN, cwd' \in {"state", "temp"},
             NEW p \in {"java", "open", "read", "extract", "member", "write", "tool"}, apc' = p
      PROVE  PlaceOK
  BY <1>4, <1>6
<1> HIDE DEF PlaceOK
<1>7. CASE UNCHANGED <<apc, tempDir, cwd, answer>>
  BY <1>4, <1>7 DEF PlaceOK
<1>8. CASE CheckIntegrity \/ NoJar \/ ReadAll \/ ToolFails \/ ToolSucceeds
  <2>1. cwd' \in {"state", "temp"}
    BY <1>4, <1>8 DEF CheckIntegrity, NoJar, ReadAll, ToolFails, ToolSucceeds
  <2>2. \E a \in Answers : Returns(a)
    BY <1>8, Zenon DEF CheckIntegrity, NoJar, ReadAll, ToolFails, ToolSucceeds, Given, Answers
  <2> QED BY <1>5, <2>1, <2>2
<1>9. CASE StartCheck
  <2>1. tempDir' \in BOOLEAN
    BY <1>9 DEF StartCheck
  <2> QED BY <1>4, <1>6, <1>9, <2>1 DEF StartCheck, Goto
<1>10. CASE FindJar \/ EndFile \/ RunTool
  BY <1>4, <1>6, <1>10 DEF FindJar, EndFile, RunTool, Goto
<1>11. CASE OpenForRoot
  <2>1. cwd' \in {"state", "temp"}
    BY <1>4, <1>11 DEF OpenForRoot
  <2>2. \/ \E a \in Answers : Returns(a)
        \/ UNCHANGED <<tempDir, answer>> /\ apc' \in {"extract", "read"}
    BY <1>11, Zenon DEF OpenForRoot, Given, Goto, Answers
  <2> QED BY <1>4, <1>5, <1>6, <2>1, <2>2
<1>12. CASE OpenForExtraction \/ ExtractDirectory \/ BeginFile \/ WriteChunk \/ ExtractionFails
  <2>1. cwd' \in {"state", "temp"}
    BY <1>4, <1>12 DEF OpenForExtraction, ExtractDirectory, BeginFile, WriteChunk, ExtractionFails
  <2>2. \/ Returns("failed")
        \/ UNCHANGED <<tempDir, answer>> /\ apc' \in {apc, "member", "write"}
    BY <1>12 DEF OpenForExtraction, ExtractDirectory, BeginFile, WriteChunk, ExtractionFails, Goto
  <2>3. "failed" \in Answers
    BY DEF Answers
  <2> QED BY <1>4, <1>5, <2>1, <2>2, <2>3 DEF PlaceOK
<1>13. ASSUME SkipMember \/ Delete \/ UNCHANGED archiveVars
       PROVE  UNCHANGED <<apc, tempDir, cwd, answer>>
  BY <1>13 DEF SkipMember, Delete, archiveVars
<1> QED BY <1>7, <1>8, <1>9, <1>10, <1>11, <1>12, <1>13 DEF ArchiveNext, ArchiveSteps

\* The parts of the bulk download's state that CrawlInv does not speak of.
BulkTypes ==
  /\ shown \in [Tasks -> -1..100]
  /\ cachedId \in Tasks \cup {0}
  /\ position \in 0..Len(artifacts)
  /\ cpc = "fetch" => position < Len(artifacts)
  /\ Range(downloads) \subseteq {"whole", "partial"}

\* A message leaves the progress a percentage, and in a row of the table.
LEMMA MessageTypes ==
  ASSUME shown \in [Tasks -> -1..100], cachedId \in Tasks \cup {0}, NEW p \in 0..100, Message(p)
  PROVE  shown' \in [Tasks -> -1..100] /\ cachedId' \in Tasks \cup {0}
<1>1. CASE UNCHANGED progressVars
  BY <1>1 DEF progressVars
<1>2. CASE \E t \in TaskIdsFound : cachedId' = t /\ shown' \in {shown, [shown EXCEPT ![t] = p]}
  <2>1. PICK t \in TaskIdsFound : cachedId' = t /\ shown' \in {shown, [shown EXCEPT ![t] = p]}
    BY <1>2
  <2>2. t \in Tasks \cup {0}
    BY DEF TaskIdsFound, OwnRows
  <2>3. p \in -1..100
    OBVIOUS
  <2> QED BY <2>1, <2>2, <2>3
<1> QED BY <1>1, <1>2 DEF Message

LEMMA BulkTypesKept ==
  ASSUME BulkTypes, CrawlInv, CrawlNext
  PROVE  BulkTypes'
<1>1. artifacts \in Seq(seen) /\ depth \in Nat /\ Len(artifacts) \in Nat
  BY DEF CrawlInv, CrawlTyped, Listed
<1>2. /\ shown \in [Tasks -> -1..100] /\ cachedId \in Tasks \cup {0}
      /\ position \in 0..Len(artifacts) /\ Range(downloads) \subseteq {"whole", "partial"}
  BY DEF BulkTypes
<1>3. ASSUME NEW p \in 0..100, Message(p), UNCHANGED <<position, downloads, artifacts>>, cpc' # "fetch"
      PROVE  BulkTypes'
  <2>1. shown' \in [Tasks -> -1..100] /\ cachedId' \in Tasks \cup {0}
    BY <1>2, <1>3, MessageTypes
  <2> QED BY <1>2, <1>3, <2>1 DEF BulkTypes
<1>4. CASE StartCrawl \/ Found \/ EndBulk
  <2>1. \E p \in 0..100 : Message(p)
    <3>1. 0 \in 0..100 /\ 100 \in 0..100
      OBVIOUS
    <3>2. Message(0) \/ Message(100)
      BY <1>4 DEF StartCrawl, Found, EndBulk
    <3> QED BY <3>1, <3>2
  <2>2. UNCHANGED <<position, downloads, artifacts>> /\ cpc' # "fetch"
    BY <1>4 DEF StartCrawl, Found, EndBulk, crawlVars
  <2> QED BY <1>3, <2>1, <2>2
<1>5. CASE EndLevel
  <2> DEFINE p == 30 + Smaller(50, 10 * depth')
  <2>1. Message(p) /\ depth' = depth + 1 /\ UNCHANGED <<position, downloads, artifacts>> /\ cpc' # "fetch"
    BY <1>5 DEF EndLevel
  <2>2. p \in 0..100
    BY <1>1, <2>1 DEF Smaller
  <2> HIDE DEF p
  <2> QED BY <1>3, <2>1, <2>2
<1>6. CASE TakeExcluded \/ TakeFile \/ TakePage
  <2>1. /\ UNCHANGED <<progressVars, position, downloads>> /\ cpc = "crawl" /\ cpc' = cpc
        /\ artifacts' \in {artifacts, Append(artifacts, Url)}
    BY <1>6 DEF TakeExcluded, TakeFile, TakePage, Taking
  <2>2. Len(artifacts') \in Nat /\ Len(artifacts') >= Len(artifacts)
    BY <1>1, <2>1
  <2>3. position' \in 0..Len(artifacts')
    BY <1>1, <1>2, <2>1, <2>2
  <2> QED BY <1>2, <2>1, <2>3 DEF BulkTypes, progressVars
<1>7. CASE BeginDownload
  <2> DEFINE p == (100 * position) \div Len(artifacts)
  <2>1. /\ position < Len(artifacts) /\ Message(p) /\ artifacts' = artifacts
        /\ \/ position' = position + 1 /\ UNCHANGED <<cpc, downloads>> /\ cpc' = "download"
           \/ cpc' = "fetch" /\ downloads' = Holding("partial") /\ UNCHANGED position
    BY <1>7 DEF BeginDownload, crawlVars
  <2>2. p \in 0..100
    <3>1. position \in Nat /\ Len(artifacts) \in Nat \ {0}
      BY <1>1, <1>2, <2>1
    <3> QED BY <2>1, <3>1, Percentage
  <2> HIDE DEF p
  <2>3. shown' \in [Tasks -> -1..100] /\ cachedId' \in Tasks \cup {0}
    BY <1>2, <2>1, <2>2, MessageTypes
  <2>4. Range(Holding("partial")) \subseteq {"whole", "partial"}
    BY <1>2 DEF Holding, Range
  <2>5. Range(downloads') \subseteq {"whole", "partial"}
    BY <1>2, <2>1, <2>4
  <2>6. position' \in 0..Len(artifacts') /\ (cpc' = "fetch" => position' < Len(artifacts'))
    BY <1>1, <1>2, <2>1
  <2> QED BY <2>3, <2>5, <2>6 DEF BulkTypes
<1>8. CASE EndDownload
  <2>1. /\ cpc = "fetch" /\ cpc' = "download" /\ position' = position + 1 /\ UNCHANGED <<progressVars, artifacts>>
        /\ downloads' \in {Holding("whole"), [f \in DOMAIN downloads \ {FileName} |-> downloads[f]]}
    BY <1>8 DEF EndDownload, crawlVars
  <2>2. position < Len(artifacts)
    BY <2>1 DEF BulkTypes
  <2>3. Range(Holding("whole")) \subseteq {"whole", "partial"}
    BY <1>2 DEF Holding, Range
  <2>4. Range([f \in DOMAIN downloads \ {FileName} |-> downloads[f]]) \subseteq {"whole", "partial"}
    BY <1>2 DEF Range
  <2>5. Range(downloads') \subseteq {"whole", "partial"}
    BY <2>1, <2>3, <2>4
  <2> QED BY <1>1, <1>2, <2>1, <2>2, <2>5 DEF BulkTypes, progressVars
<1> QED BY <1>4, <1>5, <1>6, <1>7, <1>8 DEF CrawlNext

\* The worker's part: its rows and its task.
WorkerTypes ==
  /\ row \in [Tasks -> Row]
  /\ load \in [Tasks -> Handlers]
  /\ wpc \in {"loop", "run", "error", "gone"}
  /\ job \in Tasks \cup {0}
  /\ wpc \in {"run", "error"} => job \in Tasks

LEMMA WorkerTypesKept ==
  ASSUME WorkerTypes, [Next]_vars
  PROVE  WorkerTypes'
<1>1. CASE UNCHANGED <<row, workerVars>>
  BY <1>1 DEF WorkerTypes, workerVars
<1>2. ASSUME RunArchive \/ RunMail \/ RunBulk \/ DeletePackage \/ UNCHANGED vars
      PROVE  UNCHANGED <<row, workerVars>>
  BY <1>2 DEF RunArchive, RunMail, RunBulk, DeletePackage, vars, CrawlNext, StartCrawl, TakeExcluded, TakeFile,
              TakePage, EndLevel, Found, BeginDownload, EndDownload, EndBulk
<1>3. CASE Claim
  <2>1. PICK t \in Tasks : row' = [row EXCEPT ![t] = Claimed(@, Self)] /\ job' = t
    BY <1>3 DEF Claim
  <2>2. Claimed(row[t], Self) \in Row
    BY <2>1, RowStatements, SelfIsPid DEF WorkerTypes
  <2>3. wpc' = "run" /\ load' = load
    BY <1>3 DEF Claim
  <2> QED BY <2>1, <2>2, <2>3 DEF WorkerTypes
<1>4. ASSUME NEW r \in Row, wpc \in {"run", "error"}, Finishes([row EXCEPT ![job] = r]), load' = load
      PROVE  WorkerTypes'
  BY <1>4 DEF WorkerTypes, Finishes
<1>5. CASE StoreResult
  <2> DEFINE r == Stored(row[job], Result)
  <2>1. r \in Row
    BY <1>5, RowStatements DEF WorkerTypes, StoreResult
  <2>2. Finishes([row EXCEPT ![job] = r]) /\ load' = load /\ wpc = "run"
    BY <1>5 DEF StoreResult
  <2> HIDE DEF r
  <2> QED BY <1>4, <2>1, <2>2
<1>6. CASE HandlerRaises \/ StoreFails \/ RecordErrorFails
  BY <1>6 DEF WorkerTypes, HandlerRaises, StoreFails, RecordErrorFails
<1>7. CASE RecordError
  <2>1. PICK b \in BOOLEAN : Finishes([row EXCEPT ![job] = Errored(@, b)])
    BY <1>7 DEF RecordError
  <2>2. wpc = "error" /\ load' = load
    BY <1>7 DEF RecordError
  <2> DEFINE r == Errored(row[job], b)
  <2>3. r \in Row
    BY <2>2, RowStatements DEF WorkerTypes
  <2>4. Finishes([row EXCEPT ![job] = r])
    BY <2>1
  <2> HIDE DEF r
  <2> QED BY <1>4, <2>2, <2>3, <2>4
<1>8. CASE Stopped
  <2> DEFINE r == TimedOut(row[job])
  <2>1. Finishes([row EXCEPT ![job] = r]) /\ load' = load /\ wpc \in {"run", "error"}
    BY <1>8 DEF Stopped
  <2>2. r \in Row
    BY <2>1, RowStatements DEF WorkerTypes
  <2> HIDE DEF r
  <2> QED BY <1>4, <2>1, <2>2
<1>9. CASE Killed
  BY <1>9 DEF Killed, WorkerTypes, Finishes
<1> QED BY <1>1, <1>2, <1>3, <1>5, <1>6, <1>7, <1>8, <1>9 DEF Next, Executing, Settling

TypeInv == ArchiveTypeOK /\ ArchiveInv /\ MailInv /\ CrawlInv /\ BulkTypes /\ WorkerTypes

LEMMA TypesFollow == TypeInv => TypeOK
<1> SUFFICES ASSUME TypeInv
             PROVE  TypeOK
  OBVIOUS
<1>1. CrawlTypeOK
  <2>1. maxDepth \in Nat
    BY DepthsArePositive DEF TypeInv, CrawlInv, CrawlTyped
  <2>2. depth \in 0..maxDepth /\ level \in Nat /\ nextLevel \in Nat
    BY <2>1 DEF TypeInv, CrawlInv, CrawlTyped
  <2>3. site \in Sites /\ maxDepth \in Depths /\ cpc \in {"idle", "crawl", "found", "download", "fetch", "returned"}
    BY DEF TypeInv, CrawlInv, CrawlTyped
  <2> QED BY <2>2, <2>3 DEF TypeInv, BulkTypes, CrawlTypeOK
<1> QED BY <1>1 DEF TypeInv, MailInv, WorkerTypes, TypeOK

LEMMA InitTypes == Init => TypeInv
<1> SUFFICES ASSUME Init
             PROVE  TypeInv
  OBVIOUS
<1>1. ArchiveTypeOK
  BY DEF Init, ArchiveInit, ArchiveTypeOK, Answers
<1>2. ArchiveInv /\ MailInv /\ CrawlInv
  BY InitArchive, InitMail, InitCrawl
<1>3. BulkTypes
  <2>1. CrawlInit
    BY DEF Init
  <2>2. Range(<<>>) = {} /\ Len(<<>>) = 0
    BY DEF Range
  <2> QED BY <2>1, <2>2 DEF CrawlInit, BulkTypes
<1>4. WorkerTypes
  <2>1. load \in [Tasks -> Handlers]
    BY LoadsGiveHandlers DEF Init
  <2>2. Inserted \in Row /\ Claimed(Inserted, Other) \in Row
    BY OtherIsPid DEF Inserted, Claimed, NoRow, Row, Status
  <2> QED BY <2>1, <2>2 DEF Init, WorkerTypes
<1> QED BY <1>1, <1>2, <1>3, <1>4 DEF TypeInv

LEMMA TypesKept ==
  ASSUME TypeInv, [Next]_vars
  PROVE  TypeInv'
<1>1. ArchiveInv' /\ MailInv' /\ CrawlInv' /\ WorkerTypes'
  BY ArchiveKept, MailInvKept, CrawlKept, WorkerTypesKept DEF TypeInv
<1>2. BulkTypes'
  <2>1. CASE CrawlNext
    BY <2>1, BulkTypesKept DEF TypeInv
  <2>2. CASE UNCHANGED bulkVars
    BY <2>2 DEF TypeInv, BulkTypes, bulkVars, progressVars, crawlVars
  <2>3. CrawlNext \/ UNCHANGED bulkVars
    BY DEF Next, Executing, Settling, Claim, RunArchive, RunMail, RunBulk, DeletePackage, StoreResult, HandlerRaises,
           StoreFails, RecordError, RecordErrorFails, Stopped, Killed, vars
  <2> QED BY <2>1, <2>2, <2>3
<1>3. ArchiveTypeOK'
  <2>1. CASE ArchiveNext \/ Delete \/ UNCHANGED archiveVars
    BY <1>1, <2>1, ArchiveTypes DEF TypeInv
  <2>2. CASE Stopped
    <3>1. UNCHANGED <<check, archive, present, apc, extractVars, cwd, report, answer>> /\ tempDir' = FALSE
      BY <2>2 DEF Stopped
    <3> QED BY <3>1 DEF TypeInv, ArchiveTypeOK, extractVars
  <2>3. ArchiveNext \/ Delete \/ UNCHANGED archiveVars \/ Stopped
    BY DEF Next, Executing, Settling, Claim, RunArchive, RunMail, RunBulk, DeletePackage, StoreResult, HandlerRaises,
           StoreFails, RecordError, RecordErrorFails, Killed, vars
  <2> QED BY <2>1, <2>2, <2>3
<1> QED BY <1>1, <1>2, <1>3 DEF TypeInv

\* Every variable keeps its type, whatever the archives, the sites, the loads and the
\* faults are: the progress is a percentage, no artifact is tried twice, the crawl
\* stays within its depth.
THEOREM TypeCorrect == Spec => []TypeOK
<1>1. TypeInv => TypeOK
  BY TypesFollow
<1>2. Init => TypeInv
  BY InitTypes
<1>3. TypeInv /\ [Next]_vars => TypeInv'
  BY TypesKept
<1> QED BY <1>1, <1>2, <1>3, PTL DEF Spec

-----------------------------------------------------------------------------
(* The progress of the bulk download *)

\* While there is a worker, the row whose id is cached is one of its own and ACTIVE;
\* and while it crawls no row shows more than the depth reached accounts for.
OursInv ==
  /\ wpc # "gone" /\ cachedId # 0 => cachedId \in OwnRows
  /\ cpc \in {"idle", "crawl"} => \A t \in Tasks : shown[t] <= 30 + Smaller(50, 10 * depth)

\* A row of this worker stays its own for as long as there is a worker.
LEMMA RowsStayOurs ==
  ASSUME TypeInv, [Next]_vars, NEW t \in OwnRows
  PROVE  wpc' = "gone" \/ t \in OwnRows'
<1>1. row \in [Tasks -> Row] /\ t \in Tasks /\ row[t].status = "ACTIVE" /\ row[t].pid = Self
  BY DEF TypeInv, WorkerTypes, OwnRows
<1>2. CASE row' = row
  BY <1>2 DEF OwnRows
<1>3. CASE Claim
  <2>1. PICK u \in Tasks : row' = [row EXCEPT ![u] = Claimed(@, Self)]
    BY <1>3 DEF Claim
  <2>2. Claimed(row[u], Self).pid = Self /\ Claimed(row[u], Self).status = "ACTIVE"
    BY <1>1 DEF Claimed, Row
  <2>3. row'[t].status = "ACTIVE" /\ row'[t].pid = Self
    BY <1>1, <2>1, <2>2
  <2> QED BY <1>1, <2>3 DEF OwnRows
<1>4. CASE StoreResult \/ RecordError \/ Stopped \/ Killed
  BY <1>4 DEF StoreResult, RecordError, Stopped, Killed, Finishes
<1>5. CASE ~(Claim \/ StoreResult \/ RecordError \/ Stopped \/ Killed)
  <2>1. row' = row
    BY <1>5 DEF Next, Executing, Settling, RunArchive, RunMail, RunBulk, DeletePackage, HandlerRaises,
           StoreFails, RecordErrorFails, vars, CrawlNext, StartCrawl, TakeExcluded, TakeFile,
           TakePage, EndLevel, Found, BeginDownload, EndDownload, EndBulk
  <2> QED BY <1>2, <2>1
<1> QED BY <1>3, <1>4, <1>5

\* A message changes the progress of one row at most, which is the worker's own and
\* then cached.
LEMMA MessageIsOurs ==
  ASSUME TypeInv, OursInv, wpc # "gone", NEW p, Message(p)
  PROVE  /\ cachedId' # 0 => cachedId' \in OwnRows
         /\ \A t \in Tasks : shown'[t] # shown[t] => t \in OwnRows /\ shown'[t] = p
<1>1. CASE UNCHANGED progressVars
  BY <1>1 DEF progressVars, OursInv
<1>2. CASE \E t \in TaskIdsFound : cachedId' = t /\ shown' \in {shown, [shown EXCEPT ![t] = p]}
  <2>1. PICK t \in TaskIdsFound : cachedId' = t /\ shown' \in {shown, [shown EXCEPT ![t] = p]}
    BY <1>2
  <2>2. t \in OwnRows
    BY DEF TaskIdsFound, OursInv
  <2>3. shown \in [Tasks -> -1..100]
    BY DEF TypeInv, BulkTypes
  <2> QED BY <2>1, <2>2, <2>3
<1> QED BY <1>1, <1>2 DEF Message

\* A worker that is gone does not come back.
LEMMA WorkersEnd ==
  ASSUME [Next]_vars, wpc = "gone"
  PROVE  wpc' = "gone"
BY DEF Next, Executing, Settling, Claim, RunArchive, RunMail, RunBulk, DeletePackage, StoreResult, HandlerRaises,
       StoreFails, RecordError, RecordErrorFails, Stopped, Killed, Executes, workerVars, vars

\* What a step does to the progress.
LEMMA ProgressSteps ==
  ASSUME TypeInv, OursInv, [Next]_vars
  PROVE  /\ wpc' # "gone" /\ cachedId' # 0 => cachedId' \in OwnRows
         /\ \A t \in Tasks : shown'[t] # shown[t] => t \in OwnRows /\ (cpc = "crawl" => shown'[t] > shown[t])
         /\ cpc' \in {"idle", "crawl"} => \A t \in Tasks : shown'[t] <= 30 + Smaller(50, 10 * depth')
<1>1. shown \in [Tasks -> -1..100] /\ depth \in Nat
  BY DEF TypeInv, BulkTypes, CrawlInv, CrawlTyped
<1>2. CASE UNCHANGED <<progressVars, cpc, depth>>
  BY <1>2, WorkersEnd DEF progressVars, OursInv
<1>3. CASE TakeExcluded \/ TakeFile \/ TakePage
  BY <1>2, <1>3 DEF TakeExcluded, TakeFile, TakePage
<1>4. CASE RunBulk /\ StartCrawl
  <2>1. wpc # "gone" /\ cpc = "idle" /\ Message(0) /\ UNCHANGED depth
    BY <1>4 DEF StartCrawl, RunBulk, Executes
  <2>2. /\ cachedId' # 0 => cachedId' \in OwnRows
        /\ \A t \in Tasks : shown'[t] # shown[t] => t \in OwnRows /\ shown'[t] = 0
    BY <2>1, MessageIsOurs
  <2>3. 0 <= 30 + Smaller(50, 10 * depth)
    BY <1>1 DEF Smaller
  <2>4. \A t \in Tasks : shown[t] <= 30 + Smaller(50, 10 * depth)
    BY <2>1 DEF OursInv
  <2> QED BY <2>1, <2>2, <2>3, <2>4
<1>5. CASE RunBulk /\ EndLevel
  <2> DEFINE p == 30 + Smaller(50, 10 * depth')
  <2>1. wpc # "gone" /\ cpc = "crawl" /\ Message(p) /\ depth' = depth + 1
    BY <1>5 DEF EndLevel, RunBulk, Executes
  <2>2. p \in Int /\ 30 + Smaller(50, 10 * depth) <= p
    BY <1>1, <2>1 DEF Smaller
  <2> HIDE DEF p
  <2>3. /\ cachedId' # 0 => cachedId' \in OwnRows
        /\ \A t \in Tasks : shown'[t] # shown[t] => t \in OwnRows /\ shown'[t] = p
    BY <2>1, MessageIsOurs
  <2>4. 30 + Smaller(50, 10 * depth) \in Int
    BY <1>1 DEF Smaller
  <2>5. \A t \in Tasks : shown[t] \in Int /\ shown[t] <= p
    BY <1>1, <2>1, <2>2, <2>4 DEF OursInv
  <2>6. \A t \in Tasks : shown'[t] <= p
    BY <2>2, <2>3, <2>5
  <2>7. \A t \in Tasks : shown'[t] # shown[t] => shown'[t] > shown[t]
    BY <2>2, <2>3, <2>5
  <2> QED BY <2>3, <2>6, <2>7 DEF p
<1>6. CASE RunBulk /\ (Found \/ BeginDownload \/ EndBulk)
  <2>1. wpc # "gone" /\ \E p : Message(p)
    BY <1>6 DEF Found, BeginDownload, EndBulk, RunBulk, Executes
  <2>2. /\ cachedId' # 0 => cachedId' \in OwnRows
        /\ \A t \in Tasks : shown'[t] # shown[t] => t \in OwnRows
    BY <2>1, MessageIsOurs, Zenon
  <2>3. cpc # "crawl" /\ cpc' \notin {"idle", "crawl"}
    BY <1>6 DEF Found, BeginDownload, EndBulk
  <2> QED BY <2>2, <2>3
<1>7. CASE EndDownload
  BY <1>7, WorkersEnd DEF EndDownload, progressVars, OursInv
<1>8. CASE UNCHANGED bulkVars
  BY <1>2, <1>8 DEF bulkVars, crawlVars
<1>9. RunBulk \/ UNCHANGED bulkVars
  BY DEF Next, Executing, Settling, Claim, RunArchive, RunMail, RunBulk, DeletePackage, StoreResult, HandlerRaises,
         StoreFails, RecordError, RecordErrorFails, Stopped, Killed, vars
<1> QED BY <1>3, <1>4, <1>5, <1>6, <1>7, <1>8, <1>9 DEF RunBulk, CrawlNext

LEMMA OursKept ==
  ASSUME TypeInv, OursInv, [Next]_vars
  PROVE  OursInv'
<1>1. /\ wpc' # "gone" /\ cachedId' # 0 => cachedId' \in OwnRows
      /\ cpc' \in {"idle", "crawl"} => \A t \in Tasks : shown'[t] <= 30 + Smaller(50, 10 * depth')
  BY ProgressSteps
<1>2. wpc' # "gone" /\ cachedId' # 0 => cachedId' \in OwnRows'
  BY <1>1, RowsStayOurs
<1> QED BY <1>1, <1>2 DEF OursInv, Smaller

LEMMA InitOurs == Init => OursInv
<1> SUFFICES ASSUME Init
             PROVE  OursInv
  OBVIOUS
<1>1. CrawlInit
  BY DEF Init
<1> QED BY <1>1 DEF CrawlInit, OursInv, Smaller

\* The bulk download writes its progress only to the row of its own task or, after an
\* error that the worker could not record, to the one that this left ACTIVE, whichever
\* of its lookups and updates fail, and while it crawls the progress only grows.
THEOREM ProgressIsNotLost == Spec => ProgressIsOurs
<1>1. TypeInv /\ OursInv /\ [Next]_vars => [\A t \in Tasks : shown'[t] # shown[t] =>
         t \in {job} \cup LeftActive /\ (cpc = "crawl" => shown'[t] > shown[t])]_vars
  <2>1. \A t \in OwnRows : t \in {job} \cup LeftActive
    BY DEF OwnRows, LeftActive
  <2> QED BY <2>1, ProgressSteps
<1>2. Init => TypeInv /\ OursInv
  BY InitTypes, InitOurs
<1>3. TypeInv /\ OursInv /\ [Next]_vars => TypeInv' /\ OursInv'
  BY TypesKept, OursKept
<1> QED BY <1>1, <1>2, <1>3, PTL DEF Spec, ProgressIsOurs

-----------------------------------------------------------------------------
(* The license headers *)

\* The least member of a set of numbers.
LEMMA Least ==
  ASSUME NEW S \in SUBSET Nat, S # {}
  PROVE  /\ Min(S) \in S
         /\ \A i \in S : Min(S) <= i
<1>1. \E l \in S : \A i \in S : l <= i
  BY HasLeast
<1> QED BY <1>1 DEF Min

LEMMA FindIs ==
  ASSUME NEW line, Len(line) \in Nat, NEW marker
  PROVE  /\ Find(line, marker) \in 0..Len(line)
         /\ Contains(line, marker) => Find(line, marker) >= 1
<1> DEFINE I == {i \in 1..Len(line) : line[i] = marker}
<1>1. Find(line, marker) = IF I # {} THEN Min(I) ELSE 0
  BY DEF Find, SelectInSeq
<1>2. I \subseteq Nat /\ I \subseteq 1..Len(line)
  OBVIOUS
<1>3. Contains(line, marker) => I # {}
  BY DEF Contains
<1> HIDE DEF I
<1>4. I # {} => Min(I) \in I
  BY <1>2, Least
<1>5. Find(line, marker) \in 0..Len(line) /\ (I # {} => Find(line, marker) >= 1)
  <2>1. CASE I = {}
    BY <1>1, <2>1
  <2>2. CASE I # {}
    <3>1. Min(I) \in 1..Len(line) /\ Find(line, marker) = Min(I)
      BY <1>1, <1>2, <1>4, <2>2
    <3> QED BY <3>1
  <2> QED BY <2>1, <2>2
<1> QED BY <1>3, <1>5

\* Stripping a line leaves some of its tokens.
LEMMA StrippedTokens ==
  ASSUME NEW T, NEW line \in Seq(T), NEW style, NEW multi
  PROVE  StripLine(style, multi, line).line \in Seq(T)
<1>1. Len(line) \in Nat
  OBVIOUS
<1>2. \A m, n \in Int : 1 <= m /\ n <= Len(line) => SubSeq(line, m, n) \in Seq(T)
  OBVIOUS
<1>3. \A marker : After(line, marker) \in Seq(T)
  <2> TAKE marker
  <2>1. Find(line, marker) \in 0..Len(line)
    BY <1>1, FindIs
  <2> QED BY <1>1, <1>2, <2>1 DEF After
<1>4. \A marker : Before(line, marker) \in Seq(T)
  <2> TAKE marker
  <2>1. Find(line, marker) \in 0..Len(line)
    BY <1>1, FindIs
  <2> QED BY <1>1, <1>2, <2>1 DEF Before
<1>5. ASSUME NEW marker, StartsWith(line, marker)
      PROVE  Tail(line) \in Seq(T)
  BY <1>5 DEF StartsWith
<1> QED BY <1>3, <1>4, <1>5 DEF StripLine

\* What is left of a file's lines: each comes from a line of its own, in their
\* order, and has tokens of that line only.
Leaves(src, cleaned, lines) ==
  /\ cleaned = [j \in 1..Len(cleaned) |-> cleaned[j]] /\ Len(cleaned) \in Nat
  /\ src \in [1..Len(cleaned) -> 1..Len(lines)]
  /\ \A j \in 1..Len(cleaned) :
       /\ cleaned[j] \in Seq(Range(lines[src[j]]))
       /\ cleaned[j] # <<>>
  /\ \A i, j \in 1..Len(cleaned) : i < j => src[i] < src[j]

LEMMA LinesAreLeft ==
  ASSUME NEW file, IsSource(file)
  PROVE  \E src : Leaves(src, StripComments(file), file.lines)
<1> DEFINE lines == file.lines
           n == Len(lines)
           inside[i \in 0..Len(lines)] == i > 0 /\ StripLine(file.style, inside[i - 1], lines[i]).multi
           X(m) == StripLine(file.style, inside[m - 1], lines[m]).line
           item(m) == IF X(m) = <<>> THEN <<>> ELSE <<X(m)>>
           V == {X(m) : m \in Nat \ {0}}
           items == [m \in Nat \ {0} |-> item(m)]
           d == CHOOSE f : f = [m \in Nat |-> IF m = 0 THEN <<>> ELSE f[m - 1] \o item(m)]
<1>1. StripComments(file) = d[n]
  BY DEF StripComments, Joined
<1> HIDE DEF inside
<1>2. \A m \in 1..n : X(m) \in Seq(Range(lines[m]))
  <2> TAKE m \in 1..n
  <2>1. lines[m] \in Seq(Range(lines[m]))
    BY DEF IsSource, Range
  <2> QED BY <2>1, StrippedTokens
<1> HIDE DEF X
<1>3. items \in Items(V) /\ \A m \in Nat \ {0} : Len(items[m]) <= 1
  <2>1. ASSUME NEW m \in Nat \ {0}
        PROVE  item(m) \in Seq(V) /\ Len(item(m)) <= 1
    <3>1. X(m) \in V
      OBVIOUS
    <3> HIDE DEF V
    <3> QED BY <3>1
  <2> HIDE DEF V, item
  <2> QED BY <2>1 DEF Items
<1>4. Joins(d, items)
  <2>1. PICK c : Joins(c, items)
    <3> HIDE DEF V, items
    <3> QED BY <1>3, JoinExists
  <2>2. c = [m \in Nat |-> IF m = 0 THEN <<>> ELSE c[m - 1] \o item(m)]
    BY <2>1 DEF Joins
  <2> HIDE DEF item
  <2>3. d = [m \in Nat |-> IF m = 0 THEN <<>> ELSE d[m - 1] \o item(m)]
    BY <2>2, Zenon
  <2> HIDE DEF d
  <2> QED BY <2>3 DEF Joins
<1>5. n \in Nat
  BY DEF IsSource
<1>6. \A m \in 1..n : items[m] = item(m)
  BY <1>5
<1> HIDE DEF d, V, items, n
<1>7. PICK src : Increases(src, d[n], items, n)
  BY <1>3, <1>4, <1>5, JoinIncreases
<1>8. d[n] \in Seq(V)
  BY <1>3, <1>4, <1>5, JoinHas DEF Holds
<1>9. /\ src \in [1..Len(d[n]) -> 1..n]
      /\ \A i \in 1..Len(d[n]) : Len(items[src[i]]) = 1 /\ items[src[i]][1] = d[n][i]
      /\ \A i, j \in 1..Len(d[n]) : i < j => src[i] < src[j]
  BY <1>7 DEF Increases
<1>10. ASSUME NEW j \in 1..Len(d[n])
       PROVE  d[n][j] \in Seq(Range(lines[src[j]])) /\ d[n][j] # <<>>
  <2>1. PICK m : m = src[j] /\ m \in 1..n
    BY <1>9
  <2>2. Len(item(m)) = 1 /\ item(m)[1] = d[n][j]
    BY <1>6, <1>9, <2>1
  <2>3. X(m) # <<>>
    <3>1. Len(<<>>) = 0
      OBVIOUS
    <3> QED BY <2>2, <3>1
  <2>4. item(m) = <<X(m)>>
    BY <2>3
  <2>5. <<X(m)>>[1] = X(m)
    OBVIOUS
  <2>6. d[n][j] = X(m)
    BY <2>2, <2>4, <2>5
  <2> QED BY <1>2, <2>1, <2>3, <2>6
<1>11. Leaves(src, d[n], lines)
  BY <1>8, <1>9, <1>10 DEF Leaves, n
<1> QED BY <1>1, <1>11

\* A file that passes has the lines of the header, one below the other, whatever
\* there is besides them.
LEMMA PassesCarry ==
  ASSUME NEW file, IsSource(file), Validates(file)
  PROVE  CarriesHeader(file)
<1> DEFINE cleaned == StripComments(file)
           n == Len(Header)
           lines == file.lines
<1>1. PICK src : Leaves(src, cleaned, lines)
  BY LinesAreLeft
<1>2. PICK i \in 0..Len(cleaned) - n :
        /\ Last(cleaned[i + 1]) = Header[1]
        /\ \A h \in 2..n - 1 : cleaned[i + h] = <<Header[h]>>
        /\ Head(cleaned[i + n]) = Header[n]
  BY DEF Validates
<1> HIDE DEF cleaned
<1>3. n \in Nat /\ n >= 2 /\ DOMAIN Header = 1..n
  BY HeaderIsLong
<1>4. DOMAIN lines = 1..Len(lines) /\ \A m \in DOMAIN lines : DOMAIN lines[m] = 1..Len(lines[m])
  BY DEF IsSource, Range
<1> HIDE DEF n, lines
<1>5. \A h \in 1..n : i + h \in 1..Len(cleaned)
  BY <1>1, <1>2, <1>3 DEF Leaves
<1>6. ASSUME NEW h \in 1..n
      PROVE  src[i + h] \in 1..Len(lines) /\ Contains(lines[src[i + h]], Header[h])
  <2>1. PICK x : x = cleaned[i + h]
    OBVIOUS
  <2>2. PICK m : m = src[i + h]
    OBVIOUS
  <2>3. m \in 1..Len(lines) /\ x \in Seq(Range(lines[m])) /\ x # <<>>
    BY <1>1, <1>5, <2>1, <2>2 DEF Leaves
  <2>4. \E j \in 1..Len(x) : x[j] = Header[h]
    <3>1. Len(x) \in Nat /\ Len(x) >= 1
      BY <2>3
    <3>2. CASE h = 1
      <4>1. x[Len(x)] = Header[h]
        BY <1>2, <2>1, <3>2 DEF Last
      <4> QED BY <3>1, <4>1
    <3>3. CASE h = n
      <4>1. Head(x) = Header[h]
        BY <1>2, <2>1, <3>3
      <4>2. Head(x) = x[1]
        BY <2>3
      <4> QED BY <3>1, <4>1, <4>2
    <3>4. CASE h # 1 /\ h # n
      <4>1. h \in 2..n - 1
        BY <1>3, <3>4
      <4>2. x = <<Header[h]>>
        BY <1>2, <2>1, <4>1
      <4>3. Len(<<Header[h]>>) = 1 /\ <<Header[h]>>[1] = Header[h]
        OBVIOUS
      <4> QED BY <4>2, <4>3
    <3> QED BY <3>2, <3>3, <3>4
  <2>5. Header[h] \in Range(lines[m])
    <3> DEFINE R == Range(lines[m])
    <3>1. x \in Seq(R)
      BY <2>3
    <3> HIDE DEF R
    <3>2. \A j \in 1..Len(x) : x[j] \in R
      BY <3>1
    <3> QED BY <2>4, <3>2 DEF R
  <2>6. Contains(lines[m], Header[h])
    BY <1>4, <2>3, <2>5 DEF Contains, Range
  <2> QED BY <2>2, <2>3, <2>6
<1> DEFINE at == [h \in DOMAIN Header |-> src[i + h]]
<1>7. at \in [DOMAIN Header -> DOMAIN lines]
  BY <1>3, <1>4, <1>6
<1>8. ASSUME NEW h \in DOMAIN Header, h > 1
      PROVE  at[h - 1] < at[h]
  <2>1. h \in 1..n /\ h - 1 \in 1..n /\ i + (h - 1) < i + h
    BY <1>3, <1>8
  <2>2. i + (h - 1) \in 1..Len(cleaned) /\ i + h \in 1..Len(cleaned)
    BY <1>5, <2>1
  <2>3. src[i + (h - 1)] < src[i + h]
    BY <1>1, <2>1, <2>2 DEF Leaves
  <2> QED BY <1>3, <2>1, <2>3
<1>9. \A h \in DOMAIN Header : Contains(lines[at[h]], Header[h])
  BY <1>3, <1>6
<1> HIDE DEF at
<1> QED BY <1>7, <1>8, <1>9 DEF CarriesHeader, lines

-----------------------------------------------------------------------------
(* The verdicts *)

\* The root that root_directory finds is above everything in the archive.
LEMMA RootIsAbove ==
  ASSUME archive \in Archives, IsRoot(RootDirectory)
  PROVE  /\ UnderOneRoot(RootDirectory)
         /\ \E i \in DOMAIN archive : archive[i].top = RootDirectory
<1> DEFINE Seen(i) == {j \in NamedTops : j < i}
           Differs(i) == Seen(i) # {} /\ archive[i].top # archive[Min(Seen(i))].top
           Stops == {i \in DOMAIN archive : archive[i].kind = "broken" \/ Differs(i)}
           first == Min(NamedTops)
<1>1. /\ Stops = {} /\ NamedTops # {}
      /\ RootDirectory = archive[first].top
  <2> HIDE DEF Stops
  <2>1. RootDirectory = CASE Stops # {} -> IF archive[Min(Stops)].kind = "broken" THEN "unreadable" ELSE "error"
                          [] NamedTops = {} -> "error"
                          [] OTHER -> archive[Min(NamedTops)].top
    BY DEF RootDirectory, Stops
  <2>2. RootDirectory # "unreadable" /\ RootDirectory # "error"
    BY DEF IsRoot
  <2> QED BY <2>1, <2>2
<1>2. NamedTops \subseteq DOMAIN archive /\ DOMAIN archive \subseteq Nat
  BY Members DEF NamedTops
<1>3. first \in NamedTops /\ \A j \in NamedTops : first <= j
  BY <1>1, <1>2, Least
<1> HIDE DEF first
<1>4. ASSUME NEW j \in DOMAIN archive
      PROVE  archive[j].top = IF j < first THEN "" ELSE RootDirectory
  <2>1. CASE j < first
    <3>1. j \notin NamedTops
      BY <1>2, <1>3, <2>1
    <3> QED BY <2>1, <3>1 DEF NamedTops
  <2>2. CASE j = first
    <3>1. ~(j < first)
      BY <1>2, <1>3, <2>2
    <3> QED BY <1>1, <2>2, <3>1
  <2>3. CASE first < j
    <3>1. first \in Seen(j) /\ \A k \in Seen(j) : first <= k
      BY <1>3, <2>3
    <3>2. Seen(j) \subseteq Nat /\ Seen(j) # {}
      BY <1>2, <3>1
    <3> DEFINE S == Seen(j)
               m == Min(S)
    <3>3. first \in S /\ S \subseteq Nat /\ S # {} /\ \A k \in S : first <= k
      BY <3>1, <3>2
    <3> HIDE DEF S
    <3>4. m \in S /\ \A k \in S : m <= k
      BY <3>3, Least
    <3> HIDE DEF m
    <3>5. m = first
      BY <3>3, <3>4
    <3>6. j \notin Stops
      BY <1>1
    <3>7. ~(Seen(j) # {} /\ archive[j].top # archive[Min(Seen(j))].top)
      BY <3>6
    <3>8. archive[j].top = archive[first].top
      BY <3>2, <3>5, <3>7 DEF S, m
    <3>9. ~(j < first)
      BY <1>2, <1>3, <2>3
    <3> QED BY <1>1, <3>8, <3>9
  <2>4. j \in Nat /\ first \in Nat
    BY <1>2, <1>3
  <2>5. j < first \/ j = first \/ first < j
    BY <2>4
  <2> QED BY <2>1, <2>2, <2>3, <2>5
<1>5. archive[first].top = RootDirectory /\ RootDirectory # "" /\ first \in DOMAIN archive
  BY <1>1, <1>2, <1>3 DEF NamedTops
<1>6. UnderOneRoot(RootDirectory)
  BY <1>3, <1>4, <1>5 DEF UnderOneRoot
<1> QED BY <1>5, <1>6

\* Sizes is what its definition says.
SizesUnfold ==
  /\ Sizes[0] = 0
  /\ \A n \in Nat : Sizes[n + 1] = Sizes[n] + (IF n + 1 \in Files THEN archive[n + 1].size ELSE 0)

LEMMA SizesAre ==
  ASSUME archive \in Archives
  PROVE  SizesUnfold
<1> DEFINE add(n) == IF n \in Files THEN archive[n].size ELSE 0
           step == [p \in (Nat \ {0}) \X Nat |-> p[2] + add(p[1])]
<1>1. \A n \in Nat : add(n) \in Nat
  BY Members DEF Files
<1> HIDE DEF add
<1>2. step \in Steps(Nat)
  BY <1>1 DEF Steps
<1>3. \A n \in Nat \ {0}, t \in Nat : step[<<n, t>>] = t + add(n)
  OBVIOUS
<1> HIDE DEF step
<1>4. PICK f : Recurs(f, Nat, 0, step)
  BY <1>2, Recursion
<1>5. ASSUME NEW n \in Nat
      PROVE  f[n] = IF n = 0 THEN 0 ELSE f[n - 1] + add(n)
  <2>1. CASE n = 0
    BY <1>4, <2>1 DEF Recurs
  <2>2. CASE n # 0
    <3>1. n - 1 \in Nat /\ f[n - 1] \in Nat
      BY <1>4, <2>2 DEF Recurs
    <3>2. step[<<n, f[n - 1]>>] = f[n - 1] + add(n)
      BY <1>3, <2>2, <3>1
    <3> QED BY <1>4, <2>2, <3>2 DEF Recurs
  <2> QED BY <2>1, <2>2
<1>6. f = [n \in Nat |-> IF n = 0 THEN 0 ELSE f[n - 1] + add(n)]
  <2>1. f = [n \in Nat |-> f[n]]
    BY <1>4 DEF Recurs
  <2> QED BY <1>5, <2>1
<1>7. Sizes = [n \in Nat |-> IF n = 0 THEN 0 ELSE Sizes[n - 1] + add(n)]
  <2> DEFINE g == CHOOSE g : g = [n \in Nat |-> IF n = 0 THEN 0 ELSE g[n - 1] + add(n)]
  <2>1. g = [n \in Nat |-> IF n = 0 THEN 0 ELSE g[n - 1] + add(n)]
    BY <1>6, Zenon
  <2>2. Sizes = g
    BY DEF Sizes, add
  <2> HIDE DEF g
  <2> QED BY <2>1, <2>2
<1>8. Sizes[0] = 0
  BY <1>7
<1>9. ASSUME NEW n \in Nat
      PROVE  Sizes[n + 1] = Sizes[n] + add(n + 1)
  <2>1. n + 1 \in Nat /\ n + 1 # 0 /\ (n + 1) - 1 = n
    OBVIOUS
  <2>2. Sizes[n + 1] = IF n + 1 = 0 THEN 0 ELSE Sizes[(n + 1) - 1] + add(n + 1)
    BY <1>7, <2>1
  <2> QED BY <2>1, <2>2
<1> QED BY <1>8, <1>9 DEF SizesUnfold, add

LEMMA SizesAreThen == (archive \in Archives)' => SizesUnfold'
<1>1. archive \in Archives => SizesUnfold
  BY SizesAre
<1> QED BY <1>1, PTL

LEMMA SizesSame ==
  ASSUME archive \in Archives, archive' = archive
  PROVE  \A n \in Nat : Sizes'[n] = Sizes[n]
<1> DEFINE S == {n \in Nat : Sizes'[n] = Sizes[n]}
<1>1. SizesUnfold /\ SizesUnfold' /\ Files' = Files
  BY SizesAre, SizesAreThen DEF Files
<1>2. 0 \in S
  BY <1>1 DEF SizesUnfold
<1>3. ASSUME NEW n \in Nat, n \in S
      PROVE  n + 1 \in S
  BY <1>1, <1>3 DEF SizesUnfold
<1> HIDE DEF S
<1>4. Nat \subseteq S
  BY <1>2, <1>3, Induction
<1> QED BY <1>4 DEF S

Reading == {"read", "extract", "member", "write", "tool"}

\* How far the archive's handler has come: what it has found out about the archive,
\* and that the sizes written are those of the members read.
VerdictInv ==
  /\ apc # "returned" => report = {}
  /\ apc \notin {"idle", "returned"} => check # "verify_archive_integrity"
  /\ apc \in Reading => IsRoot(RootDirectory) /\ check # "verify_archive_structure"
  /\ apc \in {"extract", "member", "write", "tool"} => check \in Tools
  /\ apc = "read" => check \notin Tools
  /\ apc \in Early => total = 0
  /\ apc \in {"member", "write", "tool"} => next <= Len(archive) + 1 /\ total = Sizes[next - 1]
  /\ answer = "completed" => Deserved

\* The archive stays as it is, and so does all that is said of it alone.
LEMMA SameArchive ==
  ASSUME archive \in Archives, UNCHANGED <<check, archive>>
  PROVE  /\ RootDirectory' = RootDirectory /\ Files' = Files
         /\ \A n \in Nat : Sizes'[n] = Sizes[n]
         /\ report' = report => Deserved' = Deserved
<1>1. \A n \in Nat : Sizes'[n] = Sizes[n]
  BY SizesSame
<1>2. RootDirectory' = RootDirectory /\ Files' = Files
  BY DEF RootDirectory, NamedTops, Files
<1>3. Len(archive) \in Nat /\ Sizes'[Len(archive)] = Sizes[Len(archive)]
  <2>1. Len(archive) \in Nat
    BY Members
  <2> QED BY <1>1, <2>1
<1>4. \A r : UnderOneRoot(r)' = UnderOneRoot(r)
  BY DEF UnderOneRoot, NamedTops
<1>5. Checked' = Checked
  BY DEF Checked
<1>6. report' = report => Deserved' = Deserved
  BY <1>3, <1>4, <1>5 DEF Deserved
<1> QED BY <1>1, <1>2, <1>6

\* What each check has found when it answers "completed" is what the archive deserves.
LEMMA StructureIsDeserved ==
  ASSUME archive \in Archives, IsRoot(RootDirectory), RootDirectory = Expected,
         check = "verify_archive_structure", report = {}
  PROVE  Deserved
<1>1. /\ UnderOneRoot(RootDirectory)
      /\ \E i \in DOMAIN archive : archive[i].top = RootDirectory
  BY RootIsAbove
<1>2. \E i \in DOMAIN archive : UnderOneRoot(archive[i].top)
  BY <1>1
<1> QED BY <1>1, <1>2 DEF Deserved, Tools

LEMMA FilesAreDeserved ==
  ASSUME archive \in Archives, IsRoot(RootDirectory), FilesFound # {}, report = {},
         check \in Checks \ Tools, check # "verify_archive_structure", check # "verify_license_headers"
  PROVE  Deserved
<1>1. UnderOneRoot(RootDirectory)
  BY RootIsAbove
<1>2. PICK i \in DOMAIN archive : archive[i].top = RootDirectory /\ archive[i].base \in {"LICENSE", "NOTICE"}
  BY DEF FilesFound
<1>3. UnderOneRoot(archive[i].top)
  BY <1>1, <1>2
<1> QED BY <1>2, <1>3 DEF Deserved

LEMMA HeadersAreDeserved ==
  ASSUME archive \in Archives, IsRoot(RootDirectory), Accepted = Checked, report = {},
         check = "verify_license_headers"
  PROVE  Deserved
<1>1. \E i \in DOMAIN archive : UnderOneRoot(archive[i].top)
  <2>1. UnderOneRoot(RootDirectory) /\ \E i \in DOMAIN archive : archive[i].top = RootDirectory
    BY RootIsAbove
  <2> QED BY <2>1
<1>2. \A i \in Checked : CarriesHeader(archive[i].text)
  <2> TAKE i \in Checked
  <2>1. Validates(archive[i].text)
    BY DEF Accepted
  <2>2. i \in DOMAIN archive /\ archive[i].base = "source"
    BY DEF Checked
  <2>3. IsSource(archive[i].text)
    BY <2>2, ArchivesHaveMembers
  <2> QED BY <2>1, <2>3, PassesCarry
<1> QED BY <1>1, <1>2 DEF Deserved, Tools

LEMMA ToolIsDeserved ==
  ASSUME archive \in Archives, IsRoot(RootDirectory), check \in Tools, Sizes[Len(archive)] <= MaxExtract,
         Unapproved(report) = {}
  PROVE  Deserved
<1>1. \E i \in DOMAIN archive : UnderOneRoot(archive[i].top)
  <2>1. UnderOneRoot(RootDirectory) /\ \E i \in DOMAIN archive : archive[i].top = RootDirectory
    BY RootIsAbove
  <2> QED BY <2>1
<1>2. \A r \in report : r.approved \/ r.family = "Unknown license"
  BY DEF Unapproved
<1> QED BY <1>1, <1>2 DEF Deserved, Tools

LEMMA ToolIsDeservedThen ==
  (archive \in Archives)' /\ IsRoot(RootDirectory)' /\ (check \in Tools)' /\ (Sizes[Len(archive)] <= MaxExtract)'
    /\ (Unapproved(report) = {})' => Deserved'
<1>1. (archive \in Archives) /\ IsRoot(RootDirectory) /\ (check \in Tools) /\ (Sizes[Len(archive)] <= MaxExtract)
        /\ (Unapproved(report) = {}) => Deserved
  BY ToolIsDeserved
<1> QED BY <1>1, PTL

LEMMA VerdictKept ==
  ASSUME ArchiveTypeOK, ArchiveInv, HandlerInv, VerdictInv, ArchiveNext
  PROVE  VerdictInv'
<1>1. archive \in Archives /\ archive' = archive /\ check' = check /\ check \in Checks
  BY DEF ArchiveInv, SizeInv, ArchiveTypeOK, ArchiveNext, ArchiveSteps, CheckIntegrity, StartCheck, FindJar, NoJar, OpenForRoot,
         ReadAll, OpenForExtraction, SkipMember, ExtractDirectory, BeginFile, WriteChunk, EndFile, ExtractionFails, RunTool, ToolFails, ToolSucceeds
<1>2. apc # "returned" /\ answer = "none" /\ report = {}
  BY DEF HandlerInv, VerdictInv, ArchiveNext, ArchiveSteps, CheckIntegrity, StartCheck, FindJar, NoJar, OpenForRoot,
         ReadAll, OpenForExtraction, SkipMember, ExtractDirectory, BeginFile, WriteChunk, EndFile, ExtractionFails, RunTool, ToolFails, ToolSucceeds
<1>3. /\ RootDirectory' = RootDirectory /\ Files' = Files
      /\ \A n \in Nat : Sizes'[n] = Sizes[n]
      /\ report' = report => Deserved' = Deserved
  BY <1>1, SameArchive
<1>4. IsRoot(RootDirectory)' = IsRoot(RootDirectory)
  BY <1>3 DEF IsRoot
<1>5. ASSUME apc' = "returned", answer' = "completed" => Deserved'
      PROVE  VerdictInv'
  BY <1>5 DEF VerdictInv, Reading, Early
<1>6. next \in Nat \ {0} /\ total \in Nat /\ Len(archive) \in Nat /\ total <= MaxExtract /\ MaxExtract \in Nat
  BY <1>1, SizesAreNumbers, Members DEF ArchiveInv, SizeInv
<1>7. CASE CheckIntegrity \/ NoJar \/ ToolFails
  BY <1>5, <1>7 DEF CheckIntegrity, NoJar, ToolFails, Returns
<1>8. CASE StartCheck \/ FindJar
  BY <1>1, <1>2, <1>8 DEF VerdictInv, Reading, Early, StartCheck, FindJar, Goto, extractVars
<1>9. CASE OpenForRoot
  <2>1. apc = "open" /\ UNCHANGED <<next, total, report>> /\ check # "verify_archive_integrity" /\ total = 0
    BY <1>9 DEF OpenForRoot, extractVars, VerdictInv, Early
  <2>2. CASE apc' = "returned" /\ answer' = "completed"
    <3>1. check = "verify_archive_structure" /\ IsRoot(RootDirectory) /\ RootDirectory = Expected
      BY <1>9, <2>2 DEF OpenForRoot, Returns, Goto, Given, IsRoot
    <3> QED BY <1>1, <1>2, <1>3, <1>5, <2>1, <2>2, <3>1, StructureIsDeserved
  <2>3. CASE apc' = "returned" /\ answer' # "completed"
    BY <1>5, <2>3
  <2>4. CASE apc' # "returned"
    <3>1. /\ check # "verify_archive_structure" /\ IsRoot(RootDirectory) /\ UNCHANGED answer
          /\ apc' = IF check \in Tools THEN "extract" ELSE "read"
      BY <1>9, <2>4 DEF OpenForRoot, Returns, Goto, IsRoot
    <3> QED BY <1>1, <1>2, <1>4, <2>1, <3>1 DEF VerdictInv, Reading, Early
  <2> QED BY <2>2, <2>3, <2>4
<1>10. CASE ReadAll
  <2>1. /\ apc = "read" /\ apc' = "returned" /\ report' = report /\ IsRoot(RootDirectory)
        /\ check \notin Tools /\ check # "verify_archive_structure"
    BY <1>10 DEF ReadAll, Returns, VerdictInv, Reading
  <2>2. ASSUME answer' = "completed"
        PROVE  Deserved
    <3>1. IF check = "verify_license_headers" THEN Accepted = Checked ELSE FilesFound # {}
      BY <1>10, <2>2 DEF ReadAll, Returns, Given
    <3>2. CASE check = "verify_license_headers"
      BY <1>1, <1>2, <2>1, <3>1, <3>2, HeadersAreDeserved
    <3>3. CASE check # "verify_license_headers"
      BY <1>1, <1>2, <2>1, <3>1, <3>3, FilesAreDeserved
    <3> QED BY <3>2, <3>3
  <2> QED BY <1>3, <1>5, <2>1, <2>2
<1>11. CASE OpenForExtraction
  <2>1. CASE present
    <3>1. /\ apc = "extract" /\ apc' = "member" /\ UNCHANGED <<next, total, report, answer>> /\ next = 1 /\ total = 0
      BY <1>11, <2>1 DEF OpenForExtraction, Goto, extractVars, VerdictInv, Early, ArchiveInv, DiskInv
    <3>2. Sizes'[0] = 0
      BY <1>1, <1>3, SizesAre DEF SizesUnfold
    <3> QED BY <1>1, <1>2, <1>4, <1>6, <3>1, <3>2 DEF VerdictInv, Reading, Early
  <2>2. CASE ~present
    BY <1>5, <1>11, <2>2 DEF OpenForExtraction, Returns
  <2> QED BY <2>1, <2>2
<1>12. ASSUME apc \in {"member", "write"}, apc' \in {"member", "write", "tool"}, UNCHANGED <<answer, report>>,
              next' <= Len(archive) + 1, next' \in Nat \ {0}, total' = Sizes[next' - 1]
       PROVE  VerdictInv'
  <2> DEFINE m == next'
  <2>1. m \in Nat \ {0}
    BY <1>12, Zenon
  <2> HIDE DEF m
  <2>2. m - 1 \in Nat
    BY <2>1
  <2>3. PICK n \in Nat : n = next' - 1
    BY <2>2 DEF m
  <2>4. total' = Sizes'[next' - 1]
    BY <1>3, <1>12, <2>3
  <2>5. IsRoot(RootDirectory)' /\ check' # "verify_archive_structure" /\ check' \in Tools
    BY <1>1, <1>4, <1>12 DEF VerdictInv, Reading
  <2>6. check' # "verify_archive_integrity" /\ report' = {} /\ answer' # "completed"
    BY <1>1, <1>2, <1>12 DEF VerdictInv
  <2>7. next' <= Len(archive') + 1
    BY <1>1, <1>12
  <2> QED BY <1>12, <2>4, <2>5, <2>6, <2>7 DEF VerdictInv, Early
<1>13. apc \in {"member", "write"} => next - 1 \in Nat /\ next <= Len(archive) + 1 /\ total = Sizes[next - 1]
  BY <1>6 DEF VerdictInv
<1>14. next <= Len(archive) /\ apc \in {"member", "write"} =>
         Sizes[next] = total + IF Member.kind = "file" THEN Member.size ELSE 0
  <2> SUFFICES ASSUME next <= Len(archive), apc \in {"member", "write"}
               PROVE  Sizes[next] = total + IF Member.kind = "file" THEN Member.size ELSE 0
    OBVIOUS
  <2>1. (next - 1) + 1 = next /\ next - 1 \in Nat
    BY <1>6
  <2>2. Sizes[next] = Sizes[next - 1] + (IF next \in Files THEN archive[next].size ELSE 0)
    <3>1. PICK n : n = next - 1
      OBVIOUS
    <3>2. n \in Nat /\ n + 1 = next
      BY <2>1, <3>1
    <3> QED BY <1>1, <3>1, <3>2, SizesAre DEF SizesUnfold
  <2>3. next \in Files <=> Member.kind = "file"
    <3>1. next \in DOMAIN archive
      BY <1>1, <1>6, Members
    <3> QED BY <3>1 DEF Files, Member
  <2> QED BY <1>13, <2>2, <2>3 DEF Member
<1>15. ASSUME apc = "member", next' = next + 1, next <= Len(archive), Member.kind # "file",
              UNCHANGED <<apc, total, report, answer>>
       PROVE  VerdictInv'
  <2>1. (next + 1) - 1 = next /\ next' \in Nat \ {0} /\ next' <= Len(archive) + 1
    BY <1>6, <1>15
  <2>2. total' = Sizes[next' - 1]
    BY <1>6, <1>14, <1>15, <2>1
  <2> QED BY <1>12, <1>15, <2>1, <2>2
<1>16. CASE EndFile
  <2>1. /\ apc = "write" /\ apc' = "member" /\ next' = next + 1 /\ total' = total + part /\ part = Member.size
        /\ UNCHANGED <<report, answer>>
    BY <1>16 DEF EndFile, Goto
  <2>2. next <= Len(archive) /\ Member.kind = "file"
    BY <2>1 DEF ArchiveInv, SizeInv
  <2>3. (next + 1) - 1 = next /\ next' \in Nat \ {0} /\ next' <= Len(archive) + 1
    BY <1>6, <2>1, <2>2
  <2>4. total' = Sizes[next' - 1]
    BY <1>14, <2>1, <2>2, <2>3
  <2> QED BY <1>12, <2>1, <2>3, <2>4
<1>17. CASE BeginFile \/ WriteChunk \/ ExtractionFails \/ RunTool
  <2>1. CASE apc' = "returned"
    <3>1. answer' # "completed"
      BY <1>17, <2>1 DEF BeginFile, WriteChunk, ExtractionFails, RunTool, Returns, Goto
    <3> QED BY <1>5, <2>1, <3>1
  <2>2. CASE apc' # "returned"
    <3>1. UNCHANGED <<next, total, report, answer>> /\ apc \in {"member", "write"} /\ apc' \in {"member", "write", "tool"}
      BY <1>17, <2>2 DEF BeginFile, WriteChunk, ExtractionFails, RunTool, Returns, Goto, extractVars
    <3> QED BY <1>6, <1>12, <1>13, <3>1
  <2> QED BY <2>1, <2>2
<1>18. CASE ToolSucceeds
  <2>1. apc = "tool" /\ apc' = "returned" /\ (answer' = "completed" => Unapproved(report') = {})
    BY <1>18 DEF ToolSucceeds, Returns, Given
  <2>2. /\ IsRoot(RootDirectory) /\ check \in Tools /\ next <= Len(archive) + 1 /\ total = Sizes[next - 1]
        /\ next > Len(archive)
    BY <2>1 DEF VerdictInv, Reading, ArchiveInv, DiskInv
  <2>3. next - 1 = Len(archive)
    BY <1>6, <2>2
  <2>4. Sizes'[Len(archive')] <= MaxExtract
    BY <1>1, <1>3, <1>6, <2>2, <2>3
  <2>5. (Unapproved(report) = {})' <=> Unapproved(report') = {}
    BY DEF Unapproved
  <2>6. ASSUME answer' = "completed"
        PROVE  Deserved'
    <3>1. (archive \in Archives)' /\ IsRoot(RootDirectory)' /\ (check \in Tools)'
      BY <1>1, <1>4, <2>2
    <3>2. (Sizes[Len(archive)] <= MaxExtract)'
      BY <2>4
    <3>3. (Unapproved(report) = {})'
      BY <2>1, <2>5, <2>6
    <3> QED BY <3>1, <3>2, <3>3, ToolIsDeservedThen
  <2> QED BY <1>5, <2>1, <2>6
<1>19. CASE SkipMember
  BY <1>15, <1>19 DEF SkipMember
<1>20. CASE ExtractDirectory
  <2>1. CASE Blocked
    BY <1>5, <1>20, <2>1 DEF ExtractDirectory, Returns
  <2>2. CASE ~Blocked
    BY <1>15, <1>20, <2>2 DEF ExtractDirectory
  <2> QED BY <2>1, <2>2
<1> QED BY <1>7, <1>8, <1>9, <1>10, <1>11, <1>16, <1>17, <1>18, <1>19, <1>20 DEF ArchiveNext, ArchiveSteps

LEMMA VerdictStays ==
  ASSUME TypeInv, PlaceInv, VerdictInv, [Next]_vars
  PROVE  VerdictInv'
<1>1. archive \in Archives /\ next \in Nat \ {0} /\ check \in Checks
  BY DEF TypeInv, ArchiveInv, SizeInv, ArchiveTypeOK
<1>2. CASE RunArchive
  BY <1>2, VerdictKept DEF RunArchive, TypeInv, PlaceInv
<1>3. CASE UNCHANGED <<check, archive, apc, next, total, report, answer>>
  <2>1. /\ RootDirectory' = RootDirectory /\ Sizes'[next - 1] = Sizes[next - 1] /\ Deserved' = Deserved
    BY <1>1, <1>3, SameArchive
  <2> QED BY <1>3, <2>1 DEF VerdictInv, IsRoot
<1>4. RunArchive \/ UNCHANGED <<check, archive, apc, next, total, report, answer>>
  BY DEF Next, Executing, Settling, Claim, RunMail, RunBulk, DeletePackage, Delete, StoreResult, HandlerRaises,
         StoreFails, RecordError, RecordErrorFails, Stopped, Killed, vars, archiveVars, extractVars
<1> QED BY <1>2, <1>3, <1>4

\* The row of a verification is COMPLETED only by that answer of its handler.
CompletedInv ==
  \A t \in Tasks : load[t] = "archive" /\ row[t].status = "COMPLETED" => answer = "completed"

LEMMA CompletedKept ==
  ASSUME TypeInv, PlaceInv, CompletedInv, [Next]_vars
  PROVE  CompletedInv'
<1>1. /\ row \in [Tasks -> Row] /\ job \in Tasks \cup {0} /\ (wpc \in {"run", "error"} => job \in Tasks)
      /\ load' = load
  BY DEF TypeInv, WorkerTypes, Next, Executing, Settling, Claim, RunArchive, RunMail, RunBulk, DeletePackage,
         StoreResult, HandlerRaises, StoreFails, RecordError, RecordErrorFails, Stopped, Killed, vars, workerVars
<1>2. ASSUME UNCHANGED <<row, answer>>
      PROVE  CompletedInv'
  BY <1>1, <1>2 DEF CompletedInv
<1>3. CASE RunArchive
  <2>1. row' = row /\ answer # "completed"
    BY <1>3 DEF RunArchive, PlaceInv, HandlerInv, ArchiveNext, ArchiveSteps, CheckIntegrity, StartCheck, FindJar, NoJar, OpenForRoot,
       ReadAll, OpenForExtraction, SkipMember, ExtractDirectory, BeginFile, WriteChunk, EndFile, ExtractionFails, RunTool, ToolFails, ToolSucceeds
  <2> QED BY <1>1, <2>1 DEF CompletedInv
<1>4. CASE Claim
  <2>1. PICK u \in Tasks : row' = [row EXCEPT ![u] = Claimed(@, Self)]
    BY <1>4 DEF Claim
  <2>2. Claimed(row[u], Self).status = "ACTIVE"
    BY <1>1 DEF Claimed, Row
  <2>3. answer' = answer
    BY <1>4 DEF Claim, archiveVars
  <2> QED BY <1>1, <2>1, <2>2, <2>3 DEF CompletedInv
<1>5. ASSUME NEW r, row' = [row EXCEPT ![job] = r], answer' = answer, job \in Tasks,
             r.status = "COMPLETED" /\ load[job] = "archive" => answer = "completed"
      PROVE  CompletedInv'
  BY <1>1, <1>5 DEF CompletedInv
<1>6. CASE StoreResult
  <2> DEFINE r == Stored(row[job], Result)
  <2>1. row' = [row EXCEPT ![job] = r] /\ answer' = answer /\ job \in Tasks
    BY <1>1, <1>6 DEF StoreResult, Finishes, archiveVars
  <2>2. r.status = "COMPLETED" => Result = "completed"
    BY <1>1, <2>1 DEF Stored, Row
  <2>3. load[job] = "archive" => Result = answer
    BY DEF Result
  <2> HIDE DEF r
  <2> QED BY <1>5, <2>1, <2>2, <2>3
<1>7. CASE RecordError
  <2>1. PICK b \in BOOLEAN : Finishes([row EXCEPT ![job] = Errored(@, b)])
    BY <1>7 DEF RecordError
  <2> DEFINE r == Errored(row[job], b)
  <2>2. row' = [row EXCEPT ![job] = r] /\ answer' = answer /\ job \in Tasks
    BY <1>1, <1>7, <2>1 DEF RecordError, Finishes, archiveVars
  <2>3. r.status = "FAILED"
    BY <1>1, <2>2 DEF Errored, Row
  <2> HIDE DEF r
  <2> QED BY <1>5, <2>2, <2>3
<1>8. CASE Stopped
  <2> DEFINE r == TimedOut(row[job])
  <2>1. row' = [row EXCEPT ![job] = r] /\ answer' = answer /\ job \in Tasks
    BY <1>1, <1>8 DEF Stopped, Finishes
  <2>2. r.status = "FAILED" \/ r = row[job]
    BY <1>1, <2>1 DEF TimedOut, Row
  <2>3. r.status = "COMPLETED" /\ load[job] = "archive" => answer = "completed"
    BY <2>1, <2>2 DEF CompletedInv
  <2> HIDE DEF r
  <2> QED BY <1>5, <2>1, <2>3
<1>9. CASE ~(RunArchive \/ Claim \/ StoreResult \/ RecordError \/ Stopped)
  <2>1. UNCHANGED <<row, answer>>
    BY <1>9 DEF Next, Executing, Settling, RunMail, RunBulk, DeletePackage, Delete, HandlerRaises,
           StoreFails, RecordErrorFails, Killed, Finishes, vars, archiveVars, CrawlNext, StartCrawl, TakeExcluded,
           TakeFile, TakePage, EndLevel, Found, BeginDownload, EndDownload, EndBulk
  <2> QED BY <1>2, <2>1
<1> QED BY <1>3, <1>4, <1>6, <1>7, <1>8, <1>9

LEMMA InitVerdict == Init => VerdictInv /\ CompletedInv
<1> SUFFICES ASSUME Init
             PROVE  VerdictInv /\ CompletedInv
  OBVIOUS
<1>1. ArchiveInit
  BY DEF Init
<1>2. VerdictInv
  BY <1>1 DEF ArchiveInit, VerdictInv, Reading, Early
<1>3. \A t \in Tasks : row[t].status \in {"QUEUED", "ACTIVE"}
  BY DEF Init, Inserted, Claimed, NoRow
<1> QED BY <1>2, <1>3 DEF CompletedInv

\* For every archive, header, limit and report, and whatever fails or is deleted
\* meanwhile: a verification is COMPLETED only if the archive has what the code asks
\* for, which of LICENSE and NOTICE is one of them, whatever is in it.
THEOREM VerdictsAreDeserved == Spec => []CompletedIsDeserved
<1> DEFINE Inv == TypeInv /\ PlaceInv /\ VerdictInv /\ CompletedInv
<1>1. Inv => CompletedIsDeserved
  BY DEF VerdictInv, CompletedInv, CompletedIsDeserved
<1>2. Init => Inv
  BY InitTypes, InitArchive, InitVerdict
<1>3. Inv /\ [Next]_vars => Inv'
  BY TypesKept, PlaceKept, VerdictStays, CompletedKept
<1> QED BY <1>1, <1>2, <1>3, PTL DEF Spec

-----------------------------------------------------------------------------
(* The usual ways to write a header *)

\* How many members of a set are at most n.
LEMMA CountStep ==
  ASSUME NEW S, NEW n \in Nat
  PROVE  /\ Cardinality(S \cap 1..n) \in Nat
         /\ Cardinality(S \cap 1..n + 1) = Cardinality(S \cap 1..n) + IF n + 1 \in S THEN 1 ELSE 0
<1> DEFINE A == S \cap 1..n
<1>1. IsFiniteSet(A)
  <2>1. IsFiniteSet(1..n)
    BY FS_Interval
  <2>2. A \in SUBSET (1..n)
    OBVIOUS
  <2> HIDE DEF A
  <2> QED BY <2>1, <2>2, FS_Subset
<1>2. Cardinality(A) \in Nat
  <2> HIDE DEF A
  <2> QED BY <1>1, FS_CardinalityType
<1>3. n + 1 \notin A
  OBVIOUS
<1>4. S \cap 1..n + 1 = IF n + 1 \in S THEN A \cup {n + 1} ELSE A
  OBVIOUS
<1> HIDE DEF A
<1>5. Cardinality(A \cup {n + 1}) = Cardinality(A) + 1
  BY <1>1, <1>3, FS_AddElement
<1> QED BY <1>2, <1>4, <1>5 DEF A

\* Whether the stripper is inside a block comment after a line.
LEMMA MultiIs ==
  ASSUME NEW style, NEW multi \in BOOLEAN, NEW line
  PROVE  /\ StripLine(style, multi, line).multi \in BOOLEAN
         /\ StripLine(style, multi, line).multi
              <=> IF multi THEN ~Contains(line, Closing(style)) ELSE Contains(line, Opening(style))
<1> DEFINE s == StripLine(style, multi, line)
<1>1. CASE ~multi /\ Contains(line, Opening(style))
  <2>1. s.multi = TRUE
    BY <1>1 DEF StripLine
  <2> QED BY <1>1, <2>1, Zenon
<1>2. CASE multi /\ Contains(line, Closing(style))
  <2>1. s.multi = FALSE
    BY <1>2 DEF StripLine
  <2> QED BY <1>2, <2>1, Zenon
<1>3. CASE ~multi /\ ~Contains(line, Opening(style))
  <2>1. s.multi = FALSE
    <3>1. CASE StartsWith(line, Single)
      BY <1>3, <3>1 DEF StripLine
    <3>2. CASE ~StartsWith(line, Single)
      <4>1. s = [multi |-> multi, line |-> line]
        BY <1>3, <3>2 DEF StripLine
      <4> QED BY <1>3, <4>1
    <3> QED BY <3>1, <3>2
  <2> QED BY <1>3, <2>1, Zenon
<1>4. CASE multi /\ ~Contains(line, Closing(style))
  <2>1. s.multi = TRUE
    BY <1>4 DEF StripLine
  <2> QED BY <1>4, <2>1, Zenon
<1> QED BY <1>1, <1>2, <1>3, <1>4

\* What stripping a file's lines goes through: whether each line ends inside a block
\* comment, and the lines that are left of those up to each.
Strips(file, inside, kept, items, V) ==
  LET lines == file.lines
      Stripped(m) == StripLine(file.style, inside[m - 1], lines[m]).line
  IN  /\ inside \in [0..Len(lines) -> BOOLEAN] /\ ~inside[0]
      /\ \A m \in 1..Len(lines) : inside[m] = StripLine(file.style, inside[m - 1], lines[m]).multi
      /\ items \in Items(V)
      /\ \A m \in 1..Len(lines) : items[m] = IF Stripped(m) = <<>> THEN <<>> ELSE <<Stripped(m)>>
      /\ Joins(kept, items)
      /\ StripComments(file) = kept[Len(lines)]

LEMMA LinesStripped ==
  ASSUME NEW file, IsSource(file)
  PROVE  \E inside, kept, items, V : Strips(file, inside, kept, items, V)
<1> DEFINE lines == file.lines
           n == Len(lines)
           style == file.style
           inside == CHOOSE inside : inside = [i \in 0..Len(lines) |->
                       i > 0 /\ StripLine(style, inside[i - 1], lines[i]).multi]
           X(m) == StripLine(style, inside[m - 1], lines[m]).line
           item(m) == IF X(m) = <<>> THEN <<>> ELSE <<X(m)>>
           V == {X(m) : m \in Nat \ {0}}
           items == [m \in Nat \ {0} |-> item(m)]
           d == CHOOSE f : f = [m \in Nat |-> IF m = 0 THEN <<>> ELSE f[m - 1] \o item(m)]
<1>1. StripComments(file) = d[n]
  BY DEF StripComments, Joined
<1>2. n \in Nat
  BY DEF IsSource
<1>3. /\ inside \in [0..n -> BOOLEAN] /\ ~inside[0]
      /\ \A m \in 1..n : inside[m] = StripLine(style, inside[m - 1], lines[m]).multi
  <2> DEFINE M(k, b) == StripLine(style, b, lines[k]).multi
             step == [p \in (Nat \ {0}) \X BOOLEAN |-> M(p[1], p[2])]
  <2>1. \A k, b : b \in BOOLEAN => M(k, b) \in BOOLEAN
    BY MultiIs, Zenon
  <2> HIDE DEF n, style, lines
  <2>2. step \in Steps(BOOLEAN)
    <3>1. \A p \in (Nat \ {0}) \X BOOLEAN : M(p[1], p[2]) \in BOOLEAN
      <4> TAKE p \in (Nat \ {0}) \X BOOLEAN
      <4>1. p[2] \in BOOLEAN
        OBVIOUS
      <4> HIDE DEF M
      <4> QED BY <2>1, <4>1, Zenon
    <3> HIDE DEF M
    <3> QED BY <3>1, Zenon DEF Steps
  <2>3. PICK g : UpTo(g, n, BOOLEAN, FALSE, step)
    <3> HIDE DEF step
    <3> QED BY <1>2, <2>2, UpToExists
  <2>4. \A k \in 1..n : k \in Nat \ {0} /\ k \in 0..n /\ k - 1 \in 0..n
    BY <1>2
  <2>5. \A k \in 1..n : g[k - 1] \in BOOLEAN /\ g[k] = M(k, g[k - 1])
    <3> HIDE DEF M
    <3>1. \A k \in Nat \ {0} : \A b \in BOOLEAN : step[<<k, b>>] = M(k, b)
      OBVIOUS
    <3> HIDE DEF step
    <3> QED BY <2>3, <2>4, <3>1, Zenon DEF UpTo
  <2>6. g = [i \in 0..Len(lines) |-> i > 0 /\ M(i, g[i - 1])]
    <3> HIDE DEF M
    <3>1. \A i \in 0..n : g[i] = (i > 0 /\ M(i, g[i - 1]))
      <4> TAKE i \in 0..n
      <4>1. CASE i = 0
        BY <2>3, <4>1 DEF UpTo
      <4>2. CASE i # 0
        <5>1. i \in 1..n /\ i > 0
          BY <4>2
        <5> QED BY <2>1, <2>5, <5>1, Zenon
      <4> QED BY <4>1, <4>2
    <3>2. g = [i \in 0..n |-> g[i]]
      BY <2>3 DEF UpTo
    <3> QED BY <3>1, <3>2, Zenon DEF n
  <2>7. inside = [i \in 0..Len(lines) |-> i > 0 /\ M(i, inside[i - 1])]
    BY <2>6, Zenon
  <2> HIDE DEF inside
  <2>8. \A i \in 0..n : inside[i] = (i > 0 /\ M(i, inside[i - 1]))
    <3> HIDE DEF M
    <3> QED BY <2>7, Zenon DEF n
  <2>9. inside \in [0..n -> BOOLEAN]
    <3> DEFINE P(i) == i > 0 /\ M(i, inside[i - 1])
    <3>1. \A i : P(i) \in BOOLEAN
      OBVIOUS
    <3>2. inside = [i \in 0..n |-> P(i)]
      BY <2>7 DEF n
    <3> HIDE DEF P
    <3> QED BY <3>1, <3>2, Zenon
  <2>10. \A m \in 1..n : inside[m] = M(m, inside[m - 1])
    <3> TAKE m \in 1..n
    <3>1. m > 0 /\ m \in 0..n /\ inside[m - 1] \in BOOLEAN
      BY <2>4, <2>9
    <3>2. M(m, inside[m - 1]) \in BOOLEAN
      <4> HIDE DEF M
      <4> QED BY <2>1, <3>1
    <3> HIDE DEF M
    <3> QED BY <2>8, <3>1, <3>2, Zenon
  <2>11. ~inside[0]
    <3>1. 0 \in 0..n /\ ~(0 > 0)
      BY <1>2
    <3> HIDE DEF M
    <3> QED BY <2>8, <3>1, Zenon
  <2> QED BY <2>9, <2>10, <2>11
<1> HIDE DEF inside, X
<1>4. items \in Items(V)
  <2>1. ASSUME NEW m \in Nat \ {0}
        PROVE  item(m) \in Seq(V)
    <3>1. X(m) \in V
      OBVIOUS
    <3> HIDE DEF V
    <3> QED BY <3>1
  <2> HIDE DEF V, item
  <2> QED BY <2>1 DEF Items
<1>5. Joins(d, items)
  <2>1. PICK c : Joins(c, items)
    <3> HIDE DEF V, items
    <3> QED BY <1>4, JoinExists
  <2>2. c = [m \in Nat |-> IF m = 0 THEN <<>> ELSE c[m - 1] \o item(m)]
    BY <2>1 DEF Joins
  <2> HIDE DEF item
  <2>3. d = [m \in Nat |-> IF m = 0 THEN <<>> ELSE d[m - 1] \o item(m)]
    BY <2>2, Zenon
  <2> HIDE DEF d
  <2> QED BY <2>3 DEF Joins
<1>6. \A m \in 1..n : items[m] = item(m)
  BY <1>2
<1> HIDE DEF d, V, items
<1>7. Strips(file, inside, d, items, V)
  BY <1>1, <1>3, <1>4, <1>5, <1>6 DEF Strips, X
<1> QED BY <1>7

\* Below lines in which every block comment ends the stripper is not inside one.
LEMMA NotInside ==
  ASSUME NEW file, IsSource(file), NEW inside, NEW kept, NEW items, NEW V, Strips(file, inside, kept, items, V),
         NEW i \in 0..Len(file.lines), CommentsClose(file.style, SubSeq(file.lines, 1, i))
  PROVE  ~inside[i]
<1> DEFINE lines == file.lines
           style == file.style
           above == SubSeq(lines, 1, i)
           O == {k \in 1..i : Contains(lines[k], Opening(style))}
           C == {k \in 1..i : Contains(lines[k], Closing(style))}
           o(n) == Cardinality(O \cap 1..n)
           c(n) == Cardinality(C \cap 1..n)
           opens(n) == Cardinality({k \in 1..n : Contains(above[k], Opening(style))})
           closes(n) == Cardinality({k \in 1..n : Contains(above[k], Closing(style))})
<1>1. Len(lines) \in Nat /\ lines \in Seq(Range(lines)) /\ style \in Styles
  BY DEF IsSource
<1>2. Len(above) = i /\ DOMAIN above = 1..i /\ \A k \in 1..i : above[k] = lines[k]
  <2> DEFINE R == Range(lines)
  <2>1. lines \in Seq(R)
    BY <1>1
  <2> HIDE DEF R, lines
  <2> QED BY <1>1, <2>1
<1>3. IF style = "python" THEN opens(Len(above)) % 2 = 0
      ELSE /\ \A k \in DOMAIN above : ~Contains(above[k], Opening(style)) \/ ~Contains(above[k], Closing(style))
           /\ \A n \in DOMAIN above : opens(n) - closes(n) \in {0, 1}
           /\ opens(Len(above)) = closes(Len(above))
  BY DEF CommentsClose
<1> HIDE DEF above
<1>4. i \in Nat /\ \A n \in 0..i : opens(n) = o(n) /\ closes(n) = c(n)
  <2>1. ASSUME NEW n \in 0..i, NEW marker
        PROVE  {k \in 1..n : Contains(above[k], marker)} = {k \in 1..i : Contains(lines[k], marker)} \cap 1..n
    <3> HIDE DEF lines
    <3>1. \A k \in 1..n : k \in 1..i /\ above[k] = lines[k]
      BY <1>2
    <3> QED BY <3>1
  <2>2. ASSUME NEW n \in 0..i
        PROVE  opens(n) = o(n) /\ closes(n) = c(n)
    <3>1. {k \in 1..n : Contains(above[k], Opening(style))} = O \cap 1..n
      BY <2>1
    <3>2. {k \in 1..n : Contains(above[k], Closing(style))} = C \cap 1..n
      BY <2>1
    <3> HIDE DEF O, C, lines, style
    <3> QED BY <3>1, <3>2
  <2>3. i \in Nat
    BY <1>1
  <2> HIDE DEF opens, closes, o, c
  <2> QED BY <2>2, <2>3
<1> HIDE DEF opens, closes
<1>5. /\ o(0) = 0 /\ c(0) = 0
      /\ \A n \in Nat : o(n) \in Nat /\ c(n) \in Nat
      /\ \A n \in Nat : o(n + 1) = o(n) + (IF n + 1 \in O THEN 1 ELSE 0)
      /\ \A n \in Nat : c(n + 1) = c(n) + (IF n + 1 \in C THEN 1 ELSE 0)
  <2> HIDE DEF O, C
  <2>1. O \cap 1..0 = {} /\ C \cap 1..0 = {}
    OBVIOUS
  <2>2. o(0) = 0 /\ c(0) = 0
    BY <2>1, FS_EmptySet
  <2>3. \A n \in Nat : o(n) \in Nat /\ o(n + 1) = o(n) + (IF n + 1 \in O THEN 1 ELSE 0)
    BY CountStep
  <2>4. \A n \in Nat : c(n) \in Nat /\ c(n + 1) = c(n) + (IF n + 1 \in C THEN 1 ELSE 0)
    BY CountStep
  <2> HIDE DEF o, c
  <2> QED BY <2>2, <2>3, <2>4
<1>6. /\ \A k \in 0..i : inside[k] \in BOOLEAN
      /\ ~inside[0]
      /\ \A k \in 1..i : inside[k] <=> IF inside[k - 1] THEN k \notin C ELSE k \in O
  <2>1. \A k \in 0..i : k \in 0..Len(lines)
    BY <1>1
  <2>2. /\ inside \in [0..Len(lines) -> BOOLEAN] /\ ~inside[0]
        /\ \A m \in 1..Len(lines) : inside[m] = StripLine(style, inside[m - 1], lines[m]).multi
    BY DEF Strips
  <2>3. \A k \in 0..i : inside[k] \in BOOLEAN
    BY <2>1, <2>2
  <2>4. ASSUME NEW k \in 1..i
        PROVE  inside[k] <=> IF inside[k - 1] THEN k \notin C ELSE k \in O
    <3>1. k \in 1..Len(lines) /\ k - 1 \in 0..i
      BY <1>1
    <3>2. inside[k - 1] \in BOOLEAN /\ inside[k] = StripLine(style, inside[k - 1], lines[k]).multi
      BY <2>2, <2>3, <3>1
    <3>3. StripLine(style, inside[k - 1], lines[k]).multi
            <=> IF inside[k - 1] THEN ~Contains(lines[k], Closing(style)) ELSE Contains(lines[k], Opening(style))
      BY <3>2, MultiIs
    <3> HIDE DEF lines, style
    <3> QED BY <3>2, <3>3
  <2> QED BY <2>2, <2>3, <2>4
<1>7. CASE style = "python"
  <2>1. O = C
    BY <1>7 DEF Opening, Closing
  <2>2. o(i) % 2 = 0
    <3>1. i \in 0..i /\ opens(Len(above)) % 2 = 0
      BY <1>3, <1>4, <1>7
    <3> HIDE DEF o, c
    <3> QED BY <1>2, <1>4, <3>1
  <2> HIDE DEF O, C, o, c
  <2> DEFINE S == {n \in Nat : n <= i => (inside[n] <=> o(n) % 2 = 1)}
  <2>3. 0 \in S
    <3>1. ~(o(0) % 2 = 1)
      BY <1>5
    <3> QED BY <1>6, <3>1
  <2>4. ASSUME NEW n \in Nat, n \in S
        PROVE  n + 1 \in S
    <3> SUFFICES ASSUME n + 1 <= i
                 PROVE  inside[n + 1] <=> o(n + 1) % 2 = 1
      OBVIOUS
    <3>1. n + 1 \in 1..i /\ (n + 1) - 1 = n /\ n <= i
      BY <1>4
    <3>2. inside[n] <=> o(n) % 2 = 1
      BY <2>4, <3>1
    <3>3. inside[n + 1] <=> IF inside[n] THEN n + 1 \notin O ELSE n + 1 \in O
      BY <1>6, <2>1, <3>1
    <3>4. o(n) \in Nat /\ o(n + 1) = o(n) + (IF n + 1 \in O THEN 1 ELSE 0)
      BY <1>5
    <3>5. \A x \in Nat : (x + 1) % 2 = 1 <=> ~(x % 2 = 1)
      OBVIOUS
    <3> QED BY <3>2, <3>3, <3>4, <3>5
  <2> HIDE DEF S
  <2>5. Nat \subseteq S
    BY <2>3, <2>4, Induction
  <2>6. inside[i] <=> o(i) % 2 = 1
    BY <1>4, <2>5 DEF S
  <2> QED BY <2>2, <2>6
<1>8. CASE style # "python"
  <2>1. /\ \A k \in 1..i : k \notin O \/ k \notin C
        /\ \A n \in 1..i : o(n) - c(n) \in {0, 1}
        /\ o(i) = c(i)
    <3>1. \A k \in 1..i : ~Contains(lines[k], Opening(style)) \/ ~Contains(lines[k], Closing(style))
      BY <1>2, <1>3, <1>8
    <3>2. \A n \in 1..i : n \in 0..i
      OBVIOUS
    <3>3. \A n \in 1..i : opens(n) - closes(n) \in {0, 1}
      BY <1>2, <1>3, <1>8
    <3>4. opens(i) = closes(i) /\ i \in 0..i
      BY <1>2, <1>3, <1>4, <1>8
    <3> QED BY <1>4, <3>1, <3>2, <3>3, <3>4
  <2> HIDE DEF O, C, o, c
  <2> DEFINE S == {n \in Nat : n <= i => (inside[n] <=> o(n) - c(n) = 1) /\ o(n) - c(n) \in {0, 1}}
  <2>2. 0 \in S
    <3>1. o(0) - c(0) = 0
      BY <1>5
    <3> QED BY <1>6, <3>1
  <2>3. ASSUME NEW n \in Nat, n \in S
        PROVE  n + 1 \in S
    <3> SUFFICES ASSUME n + 1 <= i
                 PROVE  (inside[n + 1] <=> o(n + 1) - c(n + 1) = 1) /\ o(n + 1) - c(n + 1) \in {0, 1}
      OBVIOUS
    <3>1. n + 1 \in 1..i /\ (n + 1) - 1 = n /\ n <= i
      BY <1>4
    <3>2. (inside[n] <=> o(n) - c(n) = 1) /\ o(n) - c(n) \in {0, 1}
      BY <2>3, <3>1
    <3>3. inside[n + 1] <=> IF inside[n] THEN n + 1 \notin C ELSE n + 1 \in O
      BY <1>6, <3>1
    <3>4. /\ o(n) \in Nat /\ o(n + 1) = o(n) + (IF n + 1 \in O THEN 1 ELSE 0)
          /\ c(n) \in Nat /\ c(n + 1) = c(n) + (IF n + 1 \in C THEN 1 ELSE 0)
      BY <1>5
    <3>5. (n + 1 \notin O \/ n + 1 \notin C) /\ o(n + 1) - c(n + 1) \in {0, 1}
      BY <2>1, <3>1
    <3> QED BY <3>2, <3>3, <3>4, <3>5
  <2> HIDE DEF S
  <2>4. Nat \subseteq S
    BY <2>2, <2>3, Induction
  <2>5. inside[i] <=> o(i) - c(i) = 1
    BY <1>4, <2>4 DEF S
  <2>6. o(i) - c(i) = 0
    BY <1>4, <1>5, <2>1
  <2> QED BY <2>5, <2>6
<1> QED BY <1>7, <1>8

\* A file passes if nothing but the header's lines is left of lines one after another.
LEMMA PassesThere ==
  ASSUME NEW file, IsSource(file), NEW inside, NEW kept, NEW items, NEW V, Strips(file, inside, kept, items, V),
         NEW k \in Nat, k + Len(Header) <= Len(file.lines),
         \A h \in 1..Len(Header) :
           StripLine(file.style, inside[k + h - 1], file.lines[k + h]).line = <<Header[h]>>
  PROVE  Validates(file)
<1> DEFINE n == Len(Header)
           lines == file.lines
           last == Len(lines)
           before == Len(kept[k])
           cleaned == StripComments(file)
<1>1. n \in Nat /\ n >= 2 /\ last \in Nat
  BY HeaderIsLong DEF IsSource
<1>2. items \in Items(V) /\ Joins(kept, items) /\ cleaned = kept[last]
  BY DEF Strips
<1>3. \A h \in 1..n : items[k + h] = <<<<Header[h]>>>>
  <2> TAKE h \in 1..n
  <2>1. k + h \in 1..last
    BY <1>1
  <2>2. items[k + h] = IF StripLine(file.style, inside[k + h - 1], lines[k + h]).line = <<>> THEN <<>>
                       ELSE <<StripLine(file.style, inside[k + h - 1], lines[k + h]).line>>
    BY <2>1 DEF Strips
  <2>3. <<Header[h]>> # <<>>
    OBVIOUS
  <2> QED BY <2>2, <2>3
<1>4. \A m \in Nat : kept[m] \in Seq(V)
  BY <1>2, JoinHas DEF Holds
<1> HIDE DEF n, last, cleaned
<1>5. before \in Nat
  BY <1>4
<1>6. \A h \in 1..n : kept[k + h] = kept[k + h - 1] \o items[k + h]
  <2> TAKE h \in 1..n
  <2>1. k + h \in Nat /\ k + h # 0
    BY <1>1
  <2>2. \A m \in Nat : kept[m] = IF m = 0 THEN <<>> ELSE kept[m - 1] \o items[m]
    BY <1>2 DEF Joins
  <2>3. PICK m \in Nat : m = k + h /\ m # 0
    BY <2>1
  <2>4. kept[m] = kept[m - 1] \o items[m]
    BY <2>2, <2>3
  <2>5. m - 1 = k + h - 1
    BY <1>1, <2>3
  <2> QED BY <2>3, <2>4, <2>5, Zenon
<1>7. ASSUME NEW m \in Nat, NEW x, kept[m + 1] = kept[m] \o <<x>>
      PROVE  Len(kept[m + 1]) = Len(kept[m]) + 1 /\ kept[m + 1][Len(kept[m]) + 1] = x
  <2>1. kept[m] \in Seq(V)
    BY <1>4
  <2> DEFINE a == kept[m]
             b == kept[m + 1]
  <2>2. a \in Seq(V) /\ b = a \o <<x>>
    BY <1>7, <2>1
  <2> HIDE DEF a, b
  <2>3. Len(b) = Len(a) + 1 /\ b[Len(a) + 1] = x
    BY <2>2
  <2> QED BY <2>3 DEF a, b
<1> DEFINE Long(h) == h <= n => Len(kept[k + h]) = before + h
           S == {h \in Nat : Long(h)}
<1>8. 0 \in S
  BY <1>5
<1>9. ASSUME NEW h \in Nat, h \in S
      PROVE  h + 1 \in S
  <2>9. h + 1 \in Nat
    OBVIOUS
  <2> SUFFICES Long(h + 1)
    BY <2>9, Zenon
  <2> SUFFICES ASSUME h + 1 <= n
               PROVE  Len(kept[k + (h + 1)]) = before + (h + 1)
    BY Zenon
  <2>1. Len(kept[k + h]) = before + h
    BY <1>1, <1>9
  <2>2. h + 1 \in 1..n /\ k + (h + 1) - 1 = k + h /\ k + (h + 1) = (k + h) + 1 /\ k + h \in Nat
    BY <1>1
  <2>3. kept[k + (h + 1)] = kept[k + (h + 1) - 1] \o items[k + (h + 1)]
    BY <1>6, <2>2
  <2>4. items[k + (h + 1)] = <<<<Header[h + 1]>>>>
    BY <1>3, <2>2
  <2>5. kept[(k + h) + 1] = kept[k + h] \o <<<<Header[h + 1]>>>>
    BY <2>2, <2>3, <2>4
  <2>6. Len(kept[(k + h) + 1]) = Len(kept[k + h]) + 1
    BY <1>7, <2>2, <2>5
  <2>7. kept[k + (h + 1)] = kept[(k + h) + 1]
    BY <2>2
  <2> HIDE DEF before
  <2>8. Len(kept[k + (h + 1)]) = before + (h + 1)
    BY <1>5, <2>1, <2>6, <2>7
  <2> QED BY <2>8
<1> HIDE DEF S
<1>10. Nat \subseteq S
  BY <1>8, <1>9, Induction
<1>11. \A h \in 0..n : Len(kept[k + h]) = before + h
  BY <1>10 DEF S
<1>12. ASSUME NEW h \in 1..n
       PROVE  cleaned[before + h] = <<Header[h]>> /\ before + h <= Len(cleaned)
  <2> DEFINE m == k + h - 1
  <2>1. m \in Nat /\ m + 1 = k + h /\ m = k + (h - 1) /\ h - 1 \in 0..n /\ h \in 0..n
    BY <1>1
  <2> HIDE DEF m
  <2>2. kept[m + 1] = kept[m] \o <<<<Header[h]>>>>
    BY <1>3, <1>6, <2>1 DEF m
  <2>3. kept[m + 1][Len(kept[m]) + 1] = <<Header[h]>> /\ Len(kept[m + 1]) = Len(kept[m]) + 1
    BY <1>7, <2>1, <2>2
  <2>4. Len(kept[m]) + 1 = before + h /\ Len(kept[m + 1]) = before + h
    BY <1>5, <1>11, <2>1, <2>3
  <2>5. m + 1 <= last /\ m + 1 \in Nat
    BY <1>1, <2>1 DEF n, last
  <2>6. Grows(kept[m + 1], kept[last])
    BY <1>1, <1>2, <2>5, JoinGrows
  <2>7. before + h \in 1..Len(kept[m + 1])
    BY <1>5, <2>4
  <2> QED BY <1>2, <2>3, <2>4, <2>6, <2>7 DEF Grows
<1>13. before \in 0..Len(cleaned) - n
  <2>1. n \in 1..n
    BY <1>1
  <2>2. before + n <= Len(cleaned)
    BY <1>12, <2>1
  <2>3. Len(cleaned) \in Nat
    BY <1>1, <1>2, <1>4
  <2> HIDE DEF before
  <2> QED BY <1>1, <1>5, <2>2, <2>3
<1>14. /\ Last(cleaned[before + 1]) = Header[1]
       /\ \A h \in 2..n - 1 : cleaned[before + h] = <<Header[h]>>
       /\ Head(cleaned[before + n]) = Header[n]
  <2>1. 1 \in 1..n /\ n \in 1..n /\ \A h \in 2..n - 1 : h \in 1..n
    BY <1>1
  <2>2. \A x : Head(<<x>>) = x /\ Last(<<x>>) = x
    BY DEF Last
  <2>3. cleaned[before + 1] = <<Header[1]>> /\ cleaned[before + n] = <<Header[n]>>
    BY <1>12, <2>1
  <2> QED BY <1>12, <2>1, <2>2, <2>3
<1> QED BY <1>13, <1>14 DEF Validates, cleaned, n

\* It is enough that each of the lines is stripped as the first of them is.
LEMMA PassesBelow ==
  ASSUME NEW file, IsSource(file), NEW inside, NEW kept, NEW items, NEW V, Strips(file, inside, kept, items, V),
         NEW k \in Nat, k + Len(Header) <= Len(file.lines), NEW b \in BOOLEAN, inside[k] = b,
         \A h \in 1..Len(Header) :
           StripLine(file.style, b, file.lines[k + h]) = [multi |-> b, line |-> <<Header[h]>>]
  PROVE  Validates(file)
<1> DEFINE n == Len(Header)
           lines == file.lines
           In(h) == h <= n => inside[k + h] = b
           S == {h \in Nat : In(h)}
<1>1. n \in Nat /\ Len(lines) \in Nat /\ k + n <= Len(lines)
  BY HeaderIsLong DEF IsSource
<1>2. \A h \in 1..n : StripLine(file.style, b, lines[k + h]).multi = b
  <2> TAKE h \in 1..n
  <2>1. StripLine(file.style, b, lines[k + h]) = [multi |-> b, line |-> <<Header[h]>>]
    OBVIOUS
  <2>2. [multi |-> b, line |-> <<Header[h]>>].multi = b
    OBVIOUS
  <2> QED BY <2>1, <2>2, Zenon
<1>3. \A m \in 1..Len(lines) : inside[m] = StripLine(file.style, inside[m - 1], lines[m]).multi
  BY DEF Strips
<1> HIDE DEF n, lines
<1>4. 0 \in S
  <2>1. k + 0 = k
    OBVIOUS
  <2>2. inside[k + 0] = b
    BY <2>1
  <2> QED BY <2>2
<1>5. ASSUME NEW h \in Nat, h \in S
      PROVE  h + 1 \in S
  <2>1. h + 1 \in Nat
    OBVIOUS
  <2> SUFFICES In(h + 1)
    BY <2>1, Zenon
  <2> SUFFICES ASSUME h + 1 <= n
               PROVE  inside[k + (h + 1)] = b
    BY Zenon
  <2>2. PICK m \in 1..Len(lines) : m = k + (h + 1) /\ m - 1 = k + h
    BY <1>1
  <2>3. inside[m - 1] = b
    <3>1. h <= n
      BY <1>1
    <3> QED BY <1>5, <2>2, <3>1
  <2>4. h + 1 \in 1..n
    BY <1>1
  <2>5. StripLine(file.style, b, lines[m]).multi = b
    BY <1>2, <2>2, <2>4
  <2>6. inside[m] = b
    BY <1>3, <2>3, <2>5, Zenon
  <2> QED BY <2>2, <2>6
<1> HIDE DEF S
<1>6. Nat \subseteq S
  BY <1>4, <1>5, Induction
<1>7. ASSUME NEW h \in 1..n
      PROVE  StripLine(file.style, inside[k + h - 1], lines[k + h]).line = <<Header[h]>>
  <2>1. PICK g \in Nat : g = h - 1 /\ g <= n /\ k + g = k + h - 1
    BY <1>1
  <2>2. inside[k + h - 1] = b
    <3>1. In(g)
      BY <1>6, <2>1 DEF S
    <3> QED BY <2>1, <3>1
  <2>3. StripLine(file.style, b, lines[k + h]) = [multi |-> b, line |-> <<Header[h]>>]
    BY DEF n, lines
  <2>4. [multi |-> b, line |-> <<Header[h]>>].line = <<Header[h]>>
    OBVIOUS
  <2> QED BY <2>2, <2>3, <2>4, Zenon
<1> QED BY <1>1, <1>7, PassesThere DEF n, lines

\* How the usual lines of a header are stripped.
LEMMA UsualLines ==
  ASSUME NEW style \in Styles, NEW h \in 1..Len(Header)
  PROVE  /\ StripLine(style, FALSE, <<Single, Header[h]>>) = [multi |-> FALSE, line |-> <<Header[h]>>]
         /\ Opening(style) # "none" => StripLine(style, FALSE, <<Opening(style)>>).multi = TRUE
         /\ StripLine(style, TRUE, <<Header[h]>>) = [multi |-> TRUE, line |-> <<Header[h]>>]
         /\ style = "c" => StripLine(style, TRUE, <<Star, Header[h]>>) = [multi |-> TRUE, line |-> <<Header[h]>>]
<1> DEFINE H == Header[h]
           open == Opening(style)
           close == Closing(style)
<1>1. H \notin {Single, Star, open, close}
  <2>1. H \in Range(Header)
    BY HeaderIsLong DEF Range
  <2> QED BY <2>1, HeaderHasNoMarkers
<1>2. open \in {"quotes", "open", "none"} /\ close \in {"quotes", "close", "none"}
  BY DEF Opening, Closing
<1>3. Single = "single" /\ Star = "star"
  BY DEF Single, Star
<1> HIDE DEF H
<1>4. ~Contains(<<Single, H>>, open)
  <2>1. Len(<<Single, H>>) = 2 /\ <<Single, H>>[1] = Single /\ <<Single, H>>[2] = H
    OBVIOUS
  <2> QED BY <1>1, <1>2, <1>3, <2>1 DEF Contains
<1>5. Contains(<<open>>, open)
  <2>1. Len(<<open>>) = 1 /\ <<open>>[1] = open
    OBVIOUS
  <2> QED BY <2>1 DEF Contains
<1>6. ~Contains(<<H>>, close)
  <2>1. Len(<<H>>) = 1 /\ <<H>>[1] = H
    OBVIOUS
  <2> QED BY <1>1, <2>1 DEF Contains
<1>7. ~Contains(<<Star, H>>, close)
  <2>1. Len(<<Star, H>>) = 2 /\ <<Star, H>>[1] = Star /\ <<Star, H>>[2] = H
    OBVIOUS
  <2> QED BY <1>1, <1>2, <1>3, <2>1 DEF Contains
<1>8. /\ StartsWith(<<Single, H>>, Single) /\ Tail(<<Single, H>>) = <<H>>
      /\ StartsWith(<<Star, H>>, Star) /\ Tail(<<Star, H>>) = <<H>>
      /\ ~StartsWith(<<H>>, Star)
  BY <1>1 DEF StartsWith
<1> HIDE DEF open, close
<1>9. StripLine(style, FALSE, <<Single, H>>) = [multi |-> FALSE, line |-> <<H>>]
  BY <1>4, <1>8 DEF StripLine, open
<1>10. StripLine(style, FALSE, <<open>>).multi = TRUE
  BY <1>5 DEF StripLine, open
<1>11. StripLine(style, TRUE, <<H>>) = [multi |-> TRUE, line |-> <<H>>]
  BY <1>6, <1>8 DEF StripLine, close
<1>12. style = "c" => StripLine(style, TRUE, <<Star, H>>) = [multi |-> TRUE, line |-> <<H>>]
  BY <1>7, <1>8 DEF StripLine, close
<1> QED BY <1>9, <1>10, <1>11, <1>12 DEF H, open

\* Where the members of a prefix stand.
LEMMA PrefixIs ==
  ASSUME NEW T, NEW s \in Seq(T), NEW U, NEW t \in Seq(U), NEW i \in 0..Len(t),
         IsPrefix(s, SubSeq(t, i + 1, Len(t)))
  PROVE  i + Len(s) <= Len(t) /\ \A j \in 1..Len(s) : t[i + j] = s[j]
<1> DEFINE below == SubSeq(t, i + 1, Len(t))
<1>1. Len(below) = Len(t) - i /\ \A j \in 1..Len(t) - i : below[j] = t[i + j]
  OBVIOUS
<1>2. below \in Seq(U)
  OBVIOUS
<1> HIDE DEF below
<1>3. Len(s) <= Len(below) /\ SubSeq(s, 1, Len(s)) = SubSeq(below, 1, Len(s))
  BY DEF IsPrefix, below
<1>4. \A j \in 1..Len(s) : SubSeq(s, 1, Len(s))[j] = s[j] /\ SubSeq(below, 1, Len(s))[j] = below[j]
  BY <1>2, <1>3
<1> QED BY <1>1, <1>3, <1>4

\* Appending to a sequence of one.
LEMMA AppendToOne == \A x, y : Append(<<x>>, y) = <<x, y>>
<1> TAKE x, y
<1>1. <<x>> \in Seq({x, y}) /\ Len(<<x>>) = 1 /\ <<x>>[1] = x
  OBVIOUS
<1> DEFINE s == <<x>>
           t == Append(s, y)
<1>2. t \in Seq({x, y}) /\ Len(t) = 2 /\ t[1] = x /\ t[2] = y
  <2> HIDE DEF s
  <2> QED BY <1>1 DEF s
<1> HIDE DEF t
<1>3. t = <<x, y>>
  BY <1>2
<1> QED BY <1>3 DEF t

\* The lines of a header that has the same marks before each line.
LEMMA CommentedIs ==
  ASSUME NEW decoration
  PROVE  /\ Commented(decoration) \in Seq({Append(decoration, Header[h]) : h \in 1..Len(Header)})
         /\ Len(Commented(decoration)) = Len(Header)
         /\ \A h \in 1..Len(Header) : Commented(decoration)[h] = Append(decoration, Header[h])
<1>1. Len(Header) \in Nat /\ DOMAIN Header = 1..Len(Header)
  BY HeaderIsLong
<1> QED BY <1>1 DEF Commented

\* A header in one of the usual ways is found where it stands: below the line that
\* opens its comment, if it has one.
LEMMA UsualPasses ==
  ASSUME NEW file, IsSource(file), NEW i \in 0..Len(file.lines), NEW header \in UsualHeaders(file.style),
         IsPrefix(header, SubSeq(file.lines, i + 1, Len(file.lines))),
         CommentsClose(file.style, SubSeq(file.lines, 1, i))
  PROVE  Validates(file)
<1> DEFINE lines == file.lines
           style == file.style
           open == Opening(style)
           n == Len(Header)
<1>1. style \in Styles /\ Len(lines) \in Nat /\ lines \in Seq(Range(lines)) /\ n \in Nat
  BY HeaderIsLong DEF IsSource
<1>2. PICK inside, kept, items, V : Strips(file, inside, kept, items, V)
  BY LinesStripped
<1>3. ~inside[i]
  BY <1>2, NotInside
<1>4. /\ inside \in [0..Len(lines) -> BOOLEAN]
      /\ \A m \in 1..Len(lines) : inside[m] = StripLine(style, inside[m - 1], lines[m]).multi
  BY <1>2 DEF Strips
<1>5. inside[i] = FALSE
  <2>1. inside[i] \in BOOLEAN
    BY <1>4
  <2> QED BY <1>3, <2>1, Zenon
<1>6. ASSUME NEW T, header \in Seq(T)
      PROVE  i + Len(header) <= Len(lines) /\ \A j \in 1..Len(header) : lines[i + j] = header[j]
  <2> DEFINE U == Range(lines)
  <2>1. lines \in Seq(U) /\ i \in 0..Len(lines) /\ IsPrefix(header, SubSeq(lines, i + 1, Len(lines)))
    BY <1>1
  <2> HIDE DEF U, lines
  <2> QED BY <1>6, <2>1, PrefixIs
<1>7. CASE header = Commented(<<Single>>)
  <2>1. i + n <= Len(lines) /\ \A h \in 1..n : lines[i + h] = <<Single, Header[h]>>
    <3>1. \A h \in 1..n : Append(<<Single>>, Header[h]) = <<Single, Header[h]>>
      BY AppendToOne
    <3> HIDE DEF lines
    <3> QED BY <1>6, <1>7, <3>1, CommentedIs
  <2>2. \A h \in 1..n : StripLine(style, FALSE, lines[i + h]) = [multi |-> FALSE, line |-> <<Header[h]>>]
    BY <1>1, <2>1, UsualLines
  <2>3. i \in Nat
    BY <1>1
  <2> HIDE DEF lines, style
  <2> QED BY <1>2, <1>5, <2>1, <2>2, <2>3, PassesBelow DEF lines, style
<1>8. ASSUME NEW decoration, header = Block(style, decoration), open # "none",
             \A h \in 1..n : StripLine(style, TRUE, Append(decoration, Header[h])) = [multi |-> TRUE, line |-> <<Header[h]>>]
      PROVE  Validates(file)
  <2> DEFINE C == Commented(decoration)
             T == {Append(decoration, Header[h]) : h \in 1..n} \cup {<<open>>, <<Closing(style)>>}
  <2>1. C \in Seq(T) /\ Len(C) = n /\ \A h \in 1..n : C[h] = Append(decoration, Header[h])
    <3>1. C \in Seq({Append(decoration, Header[h]) : h \in 1..n}) /\ Len(C) = n
            /\ \A h \in 1..n : C[h] = Append(decoration, Header[h])
      BY CommentedIs
    <3> HIDE DEF C
    <3> QED BY <3>1
  <2>2. header = <<<<open>>>> \o C \o <<<<Closing(style)>>>>
    BY <1>8 DEF Block
  <2>3. <<open>> \in T /\ <<Closing(style)>> \in T
    OBVIOUS
  <2> HIDE DEF C, T, open, n
  <2>4. header \in Seq(T) /\ Len(header) = n + 2
    BY <1>1, <2>1, <2>2, <2>3
  <2>5. header[1] = <<open>> /\ \A h \in 1..n : header[h + 1] = C[h]
    BY <1>1, <2>1, <2>2, <2>3
  <2>6. i + (n + 2) <= Len(lines) /\ \A j \in 1..n + 2 : lines[i + j] = header[j]
    BY <1>6, <2>4
  <2>7. PICK k \in 1..Len(lines) : k = i + 1 /\ k - 1 = i /\ k + n <= Len(lines) /\ k \in Nat
    <3> HIDE DEF lines
    <3> QED BY <1>1, <2>6
  <2>8. inside[k] = TRUE
    <3>1. lines[k] = <<open>>
      <4>1. 1 \in 1..n + 2
        BY <1>1
      <4> QED BY <2>5, <2>6, <2>7, <4>1
    <3>2. StripLine(style, FALSE, <<open>>).multi = TRUE
      <4>1. 1 \in 1..Len(Header)
        BY HeaderIsLong
      <4> QED BY <1>1, <1>8, <4>1, UsualLines DEF open
    <3>3. inside[k] = StripLine(style, inside[k - 1], lines[k]).multi
      BY <1>4
    <3> HIDE DEF lines, style
    <3> QED BY <1>5, <2>7, <3>1, <3>2, <3>3
  <2>9. \A h \in 1..n : lines[k + h] = Append(decoration, Header[h])
    <3> TAKE h \in 1..n
    <3>1. h + 1 \in 1..n + 2 /\ i + (h + 1) = k + h
      BY <1>1, <2>7
    <3> HIDE DEF lines
    <3> QED BY <2>1, <2>5, <2>6, <3>1
  <2>10. \A h \in 1..n : StripLine(style, TRUE, lines[k + h]) = [multi |-> TRUE, line |-> <<Header[h]>>]
    <3> HIDE DEF lines, style
    <3> QED BY <1>8, <2>9
  <2> HIDE DEF lines, style
  <2> QED BY <1>2, <2>7, <2>8, <2>10, PassesBelow DEF lines, style, n
<1>9. CASE open # "none" /\ header = Block(style, <<>>)
  <2>1. \A h \in 1..n : Append(<<>>, Header[h]) = <<Header[h]>>
    OBVIOUS
  <2>2. \A h \in 1..n : StripLine(style, TRUE, Append(<<>>, Header[h])) = [multi |-> TRUE, line |-> <<Header[h]>>]
    BY <1>1, <2>1, UsualLines
  <2> HIDE DEF n, style, open
  <2> QED BY <1>8, <1>9, <2>2
<1>10. CASE style = "c" /\ header = Block(style, <<Star>>)
  <2>1. \A h \in 1..n : Append(<<Star>>, Header[h]) = <<Star, Header[h]>>
    BY AppendToOne
  <2>2. \A h \in 1..n : StripLine(style, TRUE, Append(<<Star>>, Header[h])) = [multi |-> TRUE, line |-> <<Header[h]>>]
    BY <1>1, <1>10, <2>1, UsualLines
  <2>3. open # "none"
    BY <1>10 DEF Opening
  <2> HIDE DEF n, style, open
  <2> QED BY <1>8, <1>10, <2>2, <2>3
<1> QED BY <1>7, <1>9, <1>10 DEF UsualHeaders

\* What UsualHeaderPasses says of one state.
LEMMA UsualHeaderIn ==
  ASSUME ArchiveInv
  PROVE  UsualHeaderPasses
<1> SUFFICES ASSUME NEW i \in Checked,
                    HeadedBelow(archive[i].text, LAMBDA lines : CommentsClose(archive[i].text.style, lines))
             PROVE  Validates(archive[i].text)
  BY DEF UsualHeaderPasses
<1> DEFINE file == archive[i].text
<1>1. IsSource(file)
  <2>1. archive \in Archives
    BY DEF ArchiveInv, SizeInv
  <2>2. i \in DOMAIN archive /\ archive[i].base = "source"
    BY DEF Checked
  <2> QED BY <2>1, <2>2, ArchivesHaveMembers
<1>2. PICK at \in 0..Len(file.lines), header \in UsualHeaders(file.style) :
        /\ IsPrefix(header, SubSeq(file.lines, at + 1, Len(file.lines)))
        /\ CommentsClose(file.style, SubSeq(file.lines, 1, at))
  BY DEF HeadedBelow
<1> HIDE DEF file
<1>3. Validates(file)
  BY <1>1, <1>2, UsualPasses
<1> QED BY <1>3 DEF file

\* A source file whose header is written in one of the usual ways passes, whatever the
\* header, the file and the lines above it are.
THEOREM UsualHeadersPass == Spec => []UsualHeaderPasses
<1>1. ArchiveInv => UsualHeaderPasses
  BY UsualHeaderIn
<1>2. Init => ArchiveInv
  BY InitArchive
<1>3. ArchiveInv /\ [Next]_vars => ArchiveInv'
  BY ArchiveKept
<1> QED BY <1>1, <1>2, <1>3, PTL DEF Spec
=============================================================================
