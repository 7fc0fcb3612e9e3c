---------------------------- MODULE ArchiveTasks ----------------------------
(***************************************************************************)
(* The verification tasks that read an archive (tasks/archive.py,          *)
(* license.py, rat.py, sbom.py), as one worker process executes one of     *)
(* them, while the web server may delete the package under it.             *)
(*                                                                         *)
(* A file that is open stays readable, so what matters is whether the      *)
(* archive is there each time it is opened; a pass over an open archive is *)
(* one step, except the extraction, which writes to the disk chunk by      *)
(* chunk.  An archive is the sequence of its members.  A member's name is  *)
(* its first path component, which is "" if the name is absolute, and the  *)
(* rest, "" if there is none, taken as one component that leads nowhere    *)
(* else; a member of kind "broken" is where tarfile raises.                *)
(***************************************************************************)
EXTENDS LicenseHeaders, FiniteSets

CONSTANTS Archives,    \* the archives that may have been uploaded
          Expected,    \* the file's name without its two extensions
          Reports,     \* the reports that RAT may write: sets of resources
          MaxExtract,  \* MAX_EXTRACT_SIZE
          Chunk        \* EXTRACT_CHUNK_SIZE

ASSUME SizesAreNumbers == MaxExtract \in Nat /\ Chunk \in Nat \ {0}

Kinds == {"file", "directory", "link", "broken"}
ASSUME ArchivesHaveMembers ==
  \A a \in Archives :
    /\ a \in Seq(Range(a))
    /\ \A i \in DOMAIN a : a[i].kind \in Kinds /\ a[i].size \in Nat
    /\ \A i \in DOMAIN a : a[i].base = "source" => IsSource(a[i].text)
    /\ \A i \in DOMAIN a : a[i].kind = "file" /\ a[i].base = "" => a[i].top \notin {"", ".", ".."}

Checks == {"verify_archive_integrity", "verify_archive_structure", "verify_license_files",
           "verify_license_headers", "verify_rat_license", "generate_cyclonedx_sbom"}
Tools == {"verify_rat_license", "generate_cyclonedx_sbom"}

\* A resource of RAT's report.
Resource == [approved : BOOLEAN, family : {"known", "Unknown license", "missing"}]
ASSUME ReportsOfResources == Reports \subseteq SUBSET Resource

VARIABLES
  check,    \* which of Checks is executed
  archive,  \* what the path in the task's arguments holds
  present,  \* is the file there?
  apc,      \* where the handler is
  next,     \* archive_extract_safe: the member to be read
  total,    \* ... total_extracted
  part,     \* ... extracted_file_size
  disk,     \* the files in the temporary directory, by name, with their sizes
  folders,  \* the directories in it, by name
  outside,  \* the members that were written elsewhere, by name
  tempDir,  \* does the temporary directory exist?
  cwd,      \* the process's working directory
  report,   \* the resources RAT has reported
  answer    \* what the handler has returned, or that it has raised

extractVars == <<next, total, part, disk, folders, outside>>
archiveVars == <<check, archive, present, apc, extractVars, tempDir, cwd, report, answer>>

\* "raises": an exception leaves the handler.  "coroutine": its results cannot be
\* made JSON of.
Answers == {"none", "completed", "failed", "raises", "coroutine"}

ArchiveTypeOK ==
  /\ check \in Checks
  /\ archive \in Archives
  /\ present \in BOOLEAN
  /\ apc \in {"idle", "java", "open", "read", "extract", "member", "write", "tool", "returned"}
  /\ next \in Nat /\ total \in Nat /\ part \in Nat
  /\ outside \subseteq {<<archive[i].top, archive[i].base>> : i \in DOMAIN archive}
  /\ tempDir \in BOOLEAN
  /\ cwd \in {"state", "temp"}
  /\ report \subseteq Resource
  /\ answer \in Answers

ArchiveInit ==
  /\ check \in Checks
  /\ archive \in Archives
  /\ present = TRUE
  /\ apc = "idle"
  /\ next = 1 /\ total = 0 /\ part = 0
  /\ disk = <<>> /\ folders = {} /\ outside = {}
  /\ tempDir = FALSE
  /\ cwd = "state"
  /\ report = {}
  /\ answer = "none"

-----------------------------------------------------------------------------
(* Reading an archive *)

Member == archive[next]
Name(member) == <<member.top, member.base>>
Broken == \E i \in DOMAIN archive : archive[i].kind = "broken"
NamedTops == {i \in DOMAIN archive : archive[i].top # ""}

\* root_directory: the first component that is not empty, of which all later ones
\* must be copies.  It raises task.Error, or what tarfile raises.
RootDirectory ==
  LET Seen(i) == {j \in NamedTops : j < i}
      Differs(i) == Seen(i) # {} /\ archive[i].top # archive[Min(Seen(i))].top
      Stops == {i \in DOMAIN archive : archive[i].kind = "broken" \/ Differs(i)}
  IN  CASE Stops # {} -> IF archive[Min(Stops)].kind = "broken" THEN "unreadable" ELSE "error"
        [] NamedTops = {} -> "error"
        [] OTHER -> archive[Min(NamedTops)].top

IsRoot(r) == r \notin {"unreadable", "error"}

\* _files_check_core: LICENSE or NOTICE at the root; what is in them does not count.
FilesFound == {i \in DOMAIN archive : archive[i].top = RootDirectory /\ archive[i].base \in {"LICENSE", "NOTICE"}}

NoticeIsNotText == \E i \in FilesFound : archive[i].base = "NOTICE" /\ archive[i].text = "binary"

\* _headers_check_core: the files it looks at, and those it accepts.
Checked == {i \in DOMAIN archive : archive[i].kind = "file" /\ archive[i].base = "source" /\ ShouldCheck(archive[i].text)}
Accepted == {i \in Checked : Validates(archive[i].text)}

-----------------------------------------------------------------------------
(* The handlers *)

Goto(place) == apc' = place
Returns(a) ==
  /\ answer' = a
  /\ apc' = "returned"
  /\ tempDir' = FALSE

Given(condition, yes) == IF condition THEN yes ELSE "failed"

\* The server deletes the package.
Delete ==
  /\ present
  /\ present' = FALSE
  /\ UNCHANGED <<check, archive, apc, extractVars, tempDir, cwd, report, answer>>

\* check_integrity makes a coroutine of _check_integrity_core and does not await it.
CheckIntegrity ==
  /\ apc = "idle"
  /\ check = "verify_archive_integrity"
  /\ Returns("coroutine")
  /\ UNCHANGED <<check, archive, present, extractVars, cwd, report>>

StartCheck ==
  /\ apc = "idle"
  /\ check # "verify_archive_integrity"
  /\ Goto(IF check = "verify_rat_license" THEN "java" ELSE "open")
  /\ tempDir' = (check = "generate_cyclonedx_sbom")
  /\ UNCHANGED <<check, archive, present, extractVars, cwd, report, answer>>

\* rat.py: Java is there and the JAR is found, by an absolute path or, in all the
\* places that are tried, relative to the working directory.
FindJar ==
  /\ apc = "java"
  /\ cwd = "state"
  /\ tempDir' = TRUE
  /\ Goto("open")
  /\ UNCHANGED <<check, archive, present, extractVars, cwd, report, answer>>

\* There is no Java or no JAR; or looking for Java raises what is not caught.
NoJar ==
  /\ apc = "java"
  /\ \E a \in {"failed", "raises"} : Returns(a)
  /\ UNCHANGED <<check, archive, present, extractVars, cwd, report>>

\* The archive is opened and root_directory applied to it.
OpenForRoot ==
  /\ apc = "open"
  /\ LET root == IF present THEN RootDirectory ELSE "unreadable"
     IN  CASE check = "verify_archive_structure" ->
                Returns(IF IsRoot(root) THEN Given(root = Expected, "completed") ELSE "raises")
           [] check # "verify_archive_structure" /\ ~IsRoot(root) ->
                Returns(IF check \in Tools \/ root = "error" THEN "failed" ELSE "raises")
           [] OTHER ->
                Goto(IF check \in Tools THEN "extract" ELSE "read") /\ UNCHANGED <<tempDir, answer>>
  /\ UNCHANGED <<check, archive, present, extractVars, cwd, report>>

\* Mutant of ReadAll: an archive in which no file is accepted passes too.
ReadAllButNone ==
  /\ apc = "read"
  /\ Returns(IF ~present THEN "raises"
             ELSE IF check = "verify_license_headers" THEN Given(Accepted = {} \/ Accepted = Checked, "completed")
             ELSE IF NoticeIsNotText THEN "raises" ELSE Given(FilesFound # {}, "completed"))
  /\ UNCHANGED <<check, archive, present, extractVars, cwd, report>>

\* check_files and check_headers open it again and look at every member.
ReadAll ==
  /\ apc = "read"
  /\ Returns(IF ~present THEN "raises"
             ELSE IF check = "verify_license_headers" THEN Given(Accepted = Checked, "completed")
             ELSE IF NoticeIsNotText THEN "raises" ELSE Given(FilesFound # {}, "completed"))
  /\ UNCHANGED <<check, archive, present, extractVars, cwd, report>>

-----------------------------------------------------------------------------
(* archive_extract_safe, and the programs run on what it has extracted *)

OpenForExtraction ==
  /\ apc = "extract"
  /\ IF present THEN Goto("member") /\ UNCHANGED <<tempDir, answer>> ELSE Returns("failed")
  /\ UNCHANGED <<check, archive, present, extractVars, cwd, report>>

\* Mutant of WouldExceed: what has been extracted before does not count.
WouldExceedAlone == Member.size > MaxExtract

WouldExceed == total + Member.size > MaxExtract

\* A name that is absolute, or begins with "..", is joined to the temporary
\* directory's and leads out of it.
Below(member) == member.top \notin {"", ".."}
Folder(member) == IF member.base = "" THEN {} ELSE {<<member.top, "">>}

\* A file is where a directory has to be, or the other way around: makedirs, open
\* or mkdir raises.
Blocked ==
  /\ Below(Member)
  /\ \/ Folder(Member) \cap DOMAIN disk # {}
     \/ Member.kind = "file" /\ Name(Member) \in folders
     \/ Member.kind = "directory" /\ Name(Member) \in DOMAIN disk

\* What the member adds to the directories, and to what is not in the temporary one.
Put(new) ==
  /\ folders' = folders \cup (IF Below(Member) THEN new ELSE {})
  /\ outside' = outside \cup (IF Below(Member) THEN {} ELSE {Name(Member)})

\* Mutant of SkipMember: the loop goes on with the same member.
SkipMemberStaying ==
  /\ apc = "member"
  /\ next <= Len(archive)
  /\ Member.kind = "link"
  /\ next' = next
  /\ UNCHANGED <<check, archive, present, apc, total, part, disk, folders, outside, tempDir, cwd, report, answer>>

SkipMember ==
  /\ apc = "member"
  /\ next <= Len(archive)
  /\ Member.kind = "link"
  /\ next' = next + 1
  /\ UNCHANGED <<check, archive, present, apc, total, part, disk, folders, outside, tempDir, cwd, report, answer>>

\* tf.extract, with the directories above it.
ExtractDirectory ==
  /\ apc = "member"
  /\ next <= Len(archive)
  /\ Member.kind = "directory"
  /\ IF Blocked
     THEN Returns("failed") /\ UNCHANGED <<next, folders, outside>>
     ELSE /\ Put({Name(Member)} \cup Folder(Member))
          /\ next' = next + 1
          /\ UNCHANGED <<apc, tempDir, answer>>
  /\ UNCHANGED <<check, archive, present, total, part, disk, cwd, report>>

BeginFile ==
  /\ apc = "member"
  /\ next <= Len(archive)
  /\ Member.kind = "file"
  /\ IF WouldExceed \/ Blocked
     THEN Returns("failed") /\ UNCHANGED <<part, disk, folders, outside>>
     ELSE /\ part' = 0
          /\ Put(Folder(Member))
          /\ disk' = [n \in DOMAIN disk \cup (IF Below(Member) THEN {Name(Member)} ELSE {}) |->
                        IF n = Name(Member) THEN 0 ELSE disk[n]]
          /\ Goto("write")
          /\ UNCHANGED <<tempDir, answer>>
  /\ UNCHANGED <<check, archive, present, next, total, cwd, report>>

\* One chunk.  The second check of the limit cannot fail after the first one.
WriteChunk ==
  /\ apc = "write"
  /\ part < Member.size
  /\ part' = IF part + Chunk < Member.size THEN part + Chunk ELSE Member.size
  /\ disk' = [n \in DOMAIN disk |-> IF n = Name(Member) THEN part' ELSE disk[n]]
  /\ IF total + part' > MaxExtract THEN Returns("failed") ELSE UNCHANGED <<apc, tempDir, answer>>
  /\ UNCHANGED <<check, archive, present, next, total, folders, outside, cwd, report>>

\* The disk is full, a directory may not be written to, the rest cannot be read:
\* what is raised while extracting becomes the handler's FAILED.
ExtractionFails ==
  /\ apc \in {"member", "write"}
  /\ Returns("failed")
  /\ UNCHANGED <<check, archive, present, extractVars, cwd, report>>

EndFile ==
  /\ apc = "write"
  /\ part = Member.size
  /\ total' = total + part
  /\ part' = 0
  /\ next' = next + 1
  /\ Goto("member")
  /\ UNCHANGED <<check, archive, present, disk, folders, outside, tempDir, cwd, report, answer>>

\* Mutant of RunTool: the last member is left out.
RunToolEarly ==
  /\ apc = "member"
  /\ next >= Len(archive)
  /\ Goto("tool")
  /\ cwd' = IF check = "verify_rat_license" THEN "temp" ELSE cwd
  /\ UNCHANGED <<check, archive, present, extractVars, tempDir, report, answer>>

\* The end of the archive: RAT is run in the temporary directory, syft is not.
RunTool ==
  /\ apc = "member"
  /\ next > Len(archive)
  /\ Goto("tool")
  /\ cwd' = IF check = "verify_rat_license" THEN "temp" ELSE cwd
  /\ UNCHANGED <<check, archive, present, extractVars, tempDir, report, answer>>

\* Mutant of ToolFails: the time limit leaves the process where RAT ran.
ToolFailsElsewhere ==
  /\ apc = "tool"
  /\ Returns("failed")
  /\ UNCHANGED <<check, archive, present, extractVars, cwd, report>>

\* It exits with an error, takes 300 s, cannot be run, writes nothing that can be parsed.
ToolFails ==
  /\ apc = "tool"
  /\ Returns("failed")
  /\ cwd' = "state"
  /\ UNCHANGED <<check, archive, present, extractVars, report>>

\* _output_parse: neither approved nor "Unknown license".
Unapproved(resources) == {r \in resources : ~r.approved /\ r.family # "Unknown license"}

ToolSucceeds ==
  /\ apc = "tool"
  /\ report' \in IF check = "verify_rat_license" THEN Reports ELSE {{}}
  /\ Returns(Given(Unapproved(report') = {}, "completed"))
  /\ cwd' = "state"
  /\ UNCHANGED <<check, archive, present, extractVars>>

\* The handler's own steps, and what goes wrong in the middle of them.
ArchiveSteps ==
  \/ CheckIntegrity \/ StartCheck \/ FindJar \/ NoJar \/ OpenForRoot \/ ReadAll
  \/ OpenForExtraction \/ SkipMember \/ ExtractDirectory \/ BeginFile \/ WriteChunk \/ EndFile
  \/ RunTool \/ ToolFails \/ ToolSucceeds
ArchiveNext == ArchiveSteps \/ ExtractionFails
=============================================================================
