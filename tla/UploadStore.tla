------------------------------ MODULE UploadStore ------------------------------
(***************************************************************************)
(* The files of the release storage directory and the package rows that    *)
(* name them (routes/package.py, package_files_delete in                   *)
(* routes/__init__.py).                                                    *)
(*                                                                         *)
(* A file is stored under the hash of its content, so equal uploads share  *)
(* a file, and an artifact's hash is also the primary key of its package.  *)
(* Nothing ties a file to its row: each handler touches the file system    *)
(* first and commits its transaction at the end, and every await in        *)
(* between lets another handler run.  A temporary file has a random name   *)
(* that nobody else looks at; it is part of the state of the handler that  *)
(* writes it.                                                              *)
(***************************************************************************)
EXTENDS Integers

CONSTANTS Requests,    \* handlers that can be in progress at once
          Artifacts,   \* contents of artifact files, named by their hash
          Signatures,  \* contents of signature files
          NoFile,      \* no signature was given
          Ops,         \* which handlers are used: "upload", "delete"
          MaxFaults    \* bound on the faults

ASSUME ContentsDiffer == Artifacts \cap Signatures = {} /\ NoFile \notin Artifacts \cup Signatures
ASSUME OpsAreHandlers == Ops \subseteq {"upload", "delete"}
ASSUME FaultsAreNat == MaxFaults \in Nat

VARIABLES
  files,      \* the hashes that are in the storage directory
  packages,   \* the artifacts that have a row
  signature,  \* signature[a]: signature_sha3 of the row of a
  pc,         \* pc[r]: where handler r is
  art,        \* art[r]: the artifact it is about
  sgn,        \* sgn[r]: the signature it is about
  found,      \* found[r]: what its last test for a file answered
  dropped,    \* history: artifacts whose file was removed by an upload refused as duplicate
  abandoned,  \* history: files saved by uploads that an error ended, and named by no row
  faults

tables == <<packages, signature>>
vars == <<files, packages, signature, pc, art, sgn, found, dropped, abandoned, faults>>

SavingPc == {"find", "place", "query", "drop", "digest", "findSig", "placeSig", "commit"}
DeletingPc == {"look", "remove", "lookSig", "removeSig", "commitDelete"}

TypeOK ==
  /\ files \subseteq Artifacts \cup Signatures
  /\ packages \subseteq Artifacts
  /\ signature \in [Artifacts -> Signatures \cup {NoFile}]
  /\ pc \in [Requests -> {"idle"} \cup SavingPc \cup DeletingPc]
  /\ art \in [Requests -> Artifacts \cup {NoFile}]
  /\ sgn \in [Requests -> Signatures \cup {NoFile}]
  /\ found \in [Requests -> BOOLEAN]
  /\ dropped \subseteq Artifacts
  /\ abandoned \subseteq Artifacts \cup Signatures
  /\ faults \in 0..MaxFaults

Init ==
  /\ files = {}
  /\ packages = {}
  /\ signature = [a \in Artifacts |-> NoFile]
  /\ pc = [r \in Requests |-> "idle"]
  /\ art = [r \in Requests |-> NoFile]
  /\ sgn = [r \in Requests |-> NoFile]
  /\ found = [r \in Requests |-> FALSE]
  /\ dropped = {} /\ abandoned = {}
  /\ faults = 0

Fails == faults < MaxFaults /\ faults' = faults + 1

\* The file that handler r is about to save or remove.
Name(r) ==
  IF pc[r] \in {"findSig", "placeSig", "lookSig", "removeSig"} THEN sgn[r] ELSE art[r]

\* What an upload has saved, and the files that rows name.
SavedBy(r) ==
  CASE pc[r] \in {"query", "drop", "digest", "findSig", "placeSig"} -> {art[r]}
    [] pc[r] = "commit" -> {art[r], sgn[r]}
    [] OTHER -> {}
Named == packages \cup {signature[a] : a \in packages}

\* An error ends the handlers rs: nobody removes what they have saved.
Abandon(rs) == abandoned' = abandoned \cup (((UNION {SavedBy(r) : r \in rs}) \cap files) \ Named)

Go(r, label) ==
  /\ pc' = [pc EXCEPT ![r] = label]
  /\ UNCHANGED <<art, sgn, found>>

Finish(r) ==
  /\ pc' = [pc EXCEPT ![r] = "idle"]
  /\ art' = [art EXCEPT ![r] = NoFile]
  /\ sgn' = [sgn EXCEPT ![r] = NoFile]
  /\ found' = [found EXCEPT ![r] = FALSE]

-----------------------------------------------------------------------------
(* Upload: package_add_single_post *)

\* The form is valid and no package of the release has this file name.  The
\* content goes to a temporary file while its hash is computed (file_hash_save).
Receive(r) ==
  /\ "upload" \in Ops
  /\ pc[r] = "idle"
  /\ \E a \in Artifacts, s \in Signatures \cup {NoFile} :
       /\ art' = [art EXCEPT ![r] = a]
       /\ sgn' = [sgn EXCEPT ![r] = s]
  /\ pc' = [pc EXCEPT ![r] = "find"]
  /\ UNCHANGED <<files, tables, found, dropped, abandoned, faults>>

\* file_hash_save asks whether the final path exists, ...
Find(r) ==
  /\ pc[r] \in {"find", "findSig"}
  /\ found' = [found EXCEPT ![r] = Name(r) \in files]
  /\ pc' = [pc EXCEPT ![r] = IF @ = "find" THEN "place" ELSE "placeSig"]
  /\ UNCHANGED <<files, tables, art, sgn, dropped, abandoned, faults>>

\* ... and then renames the temporary file to it, or removes the temporary file.
Place(r) ==
  /\ pc[r] \in {"place", "placeSig"}
  /\ files' = IF found[r] THEN files ELSE files \cup {Name(r)}
  /\ Go(r, IF pc[r] = "place" THEN "query" ELSE "commit")
  /\ UNCHANGED <<tables, dropped, abandoned, faults>>

\* Mutant of SaveFails: the cleanup removes the final path.
SaveFailsRemovingFinal(r) ==
  /\ Fails
  /\ pc[r] \in {"find", "place", "findSig", "placeSig"}
  /\ files' = files \ {Name(r)}
  /\ Abandon({r})
  /\ Finish(r)
  /\ UNCHANGED <<tables, dropped>>

\* Something file_hash_save awaits fails (the disk is full).  The handler is stepped
\* by app_route_performance_measure, which raises the error itself instead of giving
\* it to the handler: none of the handler's own clauses runs, neither the one that
\* removes the temporary file nor the one that goes on without a signature.
SaveFails(r) ==
  /\ Fails
  /\ pc[r] \in {"find", "place", "findSig", "placeSig"}
  /\ Abandon({r})
  /\ Finish(r)
  /\ UNCHANGED <<files, tables, dropped>>

\* package_add_artifact_info_get looks for a package with this hash.
Query(r) ==
  /\ pc[r] = "query"
  /\ Go(r, IF art[r] \in packages THEN "drop" ELSE "digest")
  /\ UNCHANGED <<files, tables, dropped, abandoned, faults>>

\* There is one: the file is removed and the upload refused.
Drop(r) ==
  /\ pc[r] = "drop"
  /\ files' = files \ {art[r]}
  /\ dropped' = dropped \cup {art[r]}
  /\ abandoned' = abandoned \ {art[r]}
  /\ Finish(r)
  /\ UNCHANGED <<tables, faults>>

\* Mutant of Digest: a signature is saved whether one was given or not.
DigestThenSignature(r) ==
  /\ pc[r] = "digest"
  /\ IF art[r] \in files THEN Go(r, "findSig") ELSE Finish(r)
  /\ UNCHANGED <<files, tables, dropped, abandoned, faults>>

\* compute_sha512 reads the saved file again and raises if it is not there.
Digest(r) ==
  /\ pc[r] = "digest"
  /\ IF art[r] \in files
     THEN Go(r, IF sgn[r] = NoFile THEN "commit" ELSE "findSig")
     ELSE Finish(r)
  /\ UNCHANGED <<files, tables, dropped, abandoned, faults>>

\* The row is inserted, unless its key is taken by now: then the commit raises.
Commit(r) ==
  /\ pc[r] = "commit"
  /\ IF art[r] \notin packages
     THEN /\ packages' = packages \cup {art[r]}
          /\ signature' = [signature EXCEPT ![art[r]] = sgn[r]]
          /\ abandoned' = abandoned \ {art[r], sgn[r]}
     ELSE Abandon({r}) /\ UNCHANGED tables
  /\ Finish(r)
  /\ UNCHANGED <<files, dropped, faults>>

-----------------------------------------------------------------------------
(* Deletion: root_package_delete *)

\* package_data_get reads the row.
BeginDelete(r) ==
  /\ "delete" \in Ops
  /\ pc[r] = "idle"
  /\ \E a \in packages :
       /\ art' = [art EXCEPT ![r] = a]
       /\ sgn' = [sgn EXCEPT ![r] = signature[a]]
  /\ pc' = [pc EXCEPT ![r] = "look"]
  /\ UNCHANGED <<files, tables, found, dropped, abandoned, faults>>

\* package_files_delete asks for each of the two files whether it exists, ...
Look(r) ==
  /\ pc[r] \in {"look", "lookSig"}
  /\ found' = [found EXCEPT ![r] = Name(r) \in files]
  /\ pc' = [pc EXCEPT ![r] = IF @ = "look" THEN "remove" ELSE "removeSig"]
  /\ UNCHANGED <<files, tables, art, sgn, dropped, abandoned, faults>>

\* Mutant of Remove: a file that does not exist makes the deletion fail.
RemoveExisting(r) ==
  /\ pc[r] \in {"remove", "removeSig"}
  /\ IF Name(r) \notin files
     THEN Finish(r) /\ UNCHANGED files
     ELSE /\ files' = files \ {Name(r)}
          /\ Go(r, IF pc[r] = "remove" /\ sgn[r] # NoFile THEN "lookSig" ELSE "commitDelete")
  /\ abandoned' = abandoned \cap files'
  /\ UNCHANGED <<tables, dropped, faults>>

\* Mutant of Remove: the signature file is left.
RemoveArtifact(r) ==
  /\ pc[r] \in {"remove", "removeSig"}
  /\ IF found[r] /\ Name(r) \notin files
     THEN Finish(r) /\ UNCHANGED files
     ELSE /\ files' = IF found[r] THEN files \ {Name(r)} ELSE files
          /\ Go(r, "commitDelete")
  /\ abandoned' = abandoned \cap files'
  /\ UNCHANGED <<tables, dropped, faults>>

\* ... and then removes it; if it has gone in between, remove raises and the
\* handler gives up with the row in place.
Remove(r) ==
  /\ pc[r] \in {"remove", "removeSig"}
  /\ IF found[r] /\ Name(r) \notin files
     THEN Finish(r) /\ UNCHANGED files
     ELSE /\ files' = IF found[r] THEN files \ {Name(r)} ELSE files
          /\ Go(r, IF pc[r] = "remove" /\ sgn[r] # NoFile THEN "lookSig" ELSE "commitDelete")
  /\ abandoned' = abandoned \cap files'
  /\ UNCHANGED <<tables, dropped, faults>>

CommitDelete(r) ==
  /\ pc[r] = "commitDelete"
  /\ packages' = packages \ {art[r]}
  /\ signature' = [signature EXCEPT ![art[r]] = NoFile]
  /\ Finish(r)
  /\ UNCHANGED <<files, dropped, abandoned, faults>>

-----------------------------------------------------------------------------
(* Faults *)

\* The transaction of a handler raises, after what it did to the files.
CommitFails(r) ==
  /\ Fails
  /\ pc[r] \in {"commit", "commitDelete"}
  /\ Abandon({r})
  /\ Finish(r)
  /\ UNCHANGED <<files, tables, dropped>>

\* The server dies; files and committed rows stay.
Crash ==
  /\ Fails
  /\ Abandon(Requests)
  /\ pc' = [r \in Requests |-> "idle"]
  /\ art' = [r \in Requests |-> NoFile]
  /\ sgn' = [r \in Requests |-> NoFile]
  /\ found' = [r \in Requests |-> FALSE]
  /\ UNCHANGED <<files, tables, dropped>>

UploadStep(r) ==
  Receive(r) \/ Find(r) \/ Place(r) \/ SaveFails(r) \/ Query(r) \/ Drop(r) \/ Digest(r) \/ Commit(r)

DeleteStep(r) == BeginDelete(r) \/ Look(r) \/ Remove(r) \/ CommitDelete(r)

Next ==
  \/ \E r \in Requests : UploadStep(r) \/ DeleteStep(r) \/ CommitFails(r)
  \/ Crash

Spec == Init /\ [][Next]_vars

-----------------------------------------------------------------------------
(* Properties *)

Deletes(r) == pc[r] \in DeletingPc

\* A package has its artifact file, unless a refused duplicate has removed it or a
\* handler is about to delete the package: however uploads of the same content
\* interleave in file_hash_save, fail or are cut short by a crash.
ArtifactsAreKept ==
  \A a \in packages \ dropped :
    a \in files \/ \E r \in Requests : Deletes(r) /\ art[r] = a

\* The same for signature files, which several packages may share: while nothing is
\* deleted, a row that names one finds it.
SignaturesAreKept ==
  \A a \in packages : signature[a] # NoFile => signature[a] \in files

\* A file in the storage directory is named by a package or by a handler that is in
\* progress, or it is what an upload had saved when an error ended it: neither
\* refused uploads nor deletions, also those whose commit fails, leave anything
\* behind that no row names.
NoOrphans ==
  \A f \in files :
    \/ f \in Named
    \/ \E r \in Requests : f \in {art[r], sgn[r]}
    \/ f \in abandoned

-----------------------------------------------------------------------------
(* What comments of the code say, and the code does not keep *)

\* package_add_artifact_info_get, "Remove the saved file since we won't be using it":
\* what a refused upload removes is not used by any package.
OnlyUnusedIsDropped ==
  [][\A a \in packages : a \in files => a \in files']_vars
=============================================================================
