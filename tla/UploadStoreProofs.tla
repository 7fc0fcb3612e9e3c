--------------------------- MODULE UploadStoreProofs ---------------------------
(***************************************************************************)
(* What holds of UploadStore for every number of handlers, artifacts,      *)
(* signatures and faults: the types, and that uploads alone, however they  *)
(* interleave, fail or are cut short, leave every package its signature    *)
(* file, and its artifact file unless a refused duplicate removed it.      *)
(* Handlers that run one after the other leave no file that no row names   *)
(* but what an upload had saved when an error ended it.                    *)
(***************************************************************************)
EXTENDS UploadStore, TLAPS

SignaturePc == {"findSig", "placeSig", "lookSig", "removeSig"}

\* A handler that has begun has an artifact, and a signature where it handles one.
Working ==
  \A r \in Requests :
    /\ pc[r] # "idle" => art[r] \in Artifacts
    /\ pc[r] \in SignaturePc => sgn[r] \in Signatures

TypeInv == TypeOK /\ Working

\* The file that a handler saves or removes has a name.
LEMMA NameIsContent ==
  ASSUME TypeInv, NEW r \in Requests, pc[r] # "idle"
  PROVE  Name(r) \in Artifacts \cup Signatures
BY DEF TypeInv, TypeOK, Working, Name, SignaturePc

\* A step that ends a handler, or moves it on without touching what it is about,
\* keeps the types of the handlers' variables.
LEMMA HandlerSteps ==
  ASSUME TypeInv, NEW r \in Requests,
         NEW label \in SavingPc \cup DeletingPc,
         Finish(r) \/ (Go(r, label) /\ pc[r] # "idle"
                         /\ (label \in SignaturePc => sgn[r] \in Signatures))
  PROVE  /\ pc' \in [Requests -> {"idle"} \cup SavingPc \cup DeletingPc]
         /\ art' \in [Requests -> Artifacts \cup {NoFile}]
         /\ sgn' \in [Requests -> Signatures \cup {NoFile}]
         /\ found' \in [Requests -> BOOLEAN]
         /\ Working'
<1>1. CASE Finish(r)
  BY <1>1 DEF TypeInv, TypeOK, Working, Finish, SignaturePc
<1>2. CASE Go(r, label) /\ pc[r] # "idle" /\ (label \in SignaturePc => sgn[r] \in Signatures)
  BY <1>2 DEF TypeInv, TypeOK, Working, Go, SignaturePc
<1> QED BY <1>1, <1>2

\* What is abandoned has been saved.
LEMMA AbandonedIsSaved ==
  ASSUME TypeInv, NEW rs, Abandon(rs)
  PROVE  abandoned' \subseteq Artifacts \cup Signatures
<1> DEFINE saved == UNION {SavedBy(r) : r \in rs}
<1>1. abandoned' = abandoned \cup ((saved \cap files) \ Named)
  BY DEF Abandon
<1> HIDE DEF saved
<1> QED BY <1>1 DEF TypeInv, TypeOK

LEMMA TypeStep == TypeInv /\ [Next]_vars => TypeInv'
<1> SUFFICES ASSUME TypeInv, [Next]_vars
             PROVE  TypeInv'
  OBVIOUS
<1> USE DEF SavingPc, DeletingPc
<1>1. ASSUME NEW r \in Requests, Receive(r)
      PROVE  TypeInv'
  BY <1>1 DEF Receive, TypeInv, TypeOK, Working, SignaturePc, tables
<1>2. ASSUME NEW r \in Requests, Find(r)
      PROVE  TypeInv'
  BY <1>2 DEF Find, TypeInv, TypeOK, Working, SignaturePc, tables
<1>3. ASSUME NEW r \in Requests, Place(r)
      PROVE  TypeInv'
  <2>1. Name(r) \in Artifacts \cup Signatures
    BY <1>3, NameIsContent DEF Place
  <2> QED BY <1>3, <2>1, HandlerSteps DEF Place, Go, TypeInv, TypeOK, SignaturePc, tables
<1>4. ASSUME NEW r \in Requests, SaveFails(r)
      PROVE  TypeInv'
  <2>1. faults' \in 0..MaxFaults
    BY <1>4, FaultsAreNat DEF SaveFails, Fails, TypeInv, TypeOK
  <2> QED BY <1>4, <2>1, HandlerSteps, AbandonedIsSaved DEF SaveFails, TypeInv, TypeOK, tables
<1>5. ASSUME NEW r \in Requests, Query(r)
      PROVE  TypeInv'
  BY <1>5, HandlerSteps DEF Query, Go, TypeInv, TypeOK, SignaturePc, tables
<1>6. ASSUME NEW r \in Requests, Drop(r)
      PROVE  TypeInv'
  BY <1>6, HandlerSteps DEF Drop, TypeInv, TypeOK, Working, tables
<1>7. ASSUME NEW r \in Requests, Digest(r)
      PROVE  TypeInv'
  BY <1>7, HandlerSteps DEF Digest, TypeInv, TypeOK, SignaturePc, tables
<1>8. ASSUME NEW r \in Requests, Commit(r)
      PROVE  TypeInv'
  <2>1. abandoned' \subseteq Artifacts \cup Signatures
    BY <1>8, AbandonedIsSaved DEF Commit, TypeInv, TypeOK
  <2> QED BY <1>8, <2>1, HandlerSteps DEF Commit, TypeInv, TypeOK, Working, tables
<1>9. ASSUME NEW r \in Requests, BeginDelete(r)
      PROVE  TypeInv'
  BY <1>9 DEF BeginDelete, TypeInv, TypeOK, Working, SignaturePc, tables
<1>10. ASSUME NEW r \in Requests, Look(r)
       PROVE  TypeInv'
  BY <1>10 DEF Look, TypeInv, TypeOK, Working, SignaturePc, tables
<1>11. ASSUME NEW r \in Requests, Remove(r)
       PROVE  TypeInv'
  BY <1>11, HandlerSteps DEF Remove, TypeInv, TypeOK, SignaturePc, tables
<1>12. ASSUME NEW r \in Requests, CommitDelete(r)
       PROVE  TypeInv'
  BY <1>12, HandlerSteps DEF CommitDelete, TypeInv, TypeOK, Working, tables
<1>13. ASSUME NEW r \in Requests, CommitFails(r)
       PROVE  TypeInv'
  <2>1. faults' \in 0..MaxFaults
    BY <1>13, FaultsAreNat DEF CommitFails, Fails, TypeInv, TypeOK
  <2> QED BY <1>13, <2>1, HandlerSteps, AbandonedIsSaved DEF CommitFails, TypeInv, TypeOK, tables
<1>14. CASE Crash
  <2>1. faults' \in 0..MaxFaults
    BY <1>14, FaultsAreNat DEF Crash, Fails, TypeInv, TypeOK
  <2> QED BY <1>14, <2>1, AbandonedIsSaved DEF Crash, TypeInv, TypeOK, Working, SignaturePc, tables
<1>15. CASE UNCHANGED vars
  BY <1>15 DEF vars, TypeInv, TypeOK, Working
<1> QED BY <1>1, <1>2, <1>3, <1>4, <1>5, <1>6, <1>7, <1>8, <1>9, <1>10, <1>11, <1>12,
           <1>13, <1>14, <1>15 DEF Next, UploadStep, DeleteStep

\* A handler at work knows what it works on.
LEMMA TypeInvariant == Spec => []TypeInv
<1>1. Init => TypeInv
  BY FaultsAreNat DEF Init, TypeInv, TypeOK, Working, SignaturePc
<1> QED BY <1>1, TypeStep, PTL DEF Spec

\* The variables of UploadStore keep their types (every handler and fault).
THEOREM TypeCorrect == Spec => []TypeOK
<1>1. TypeInv => TypeOK
  BY DEF TypeInv
<1> QED BY <1>1, TypeInvariant, PTL

-----------------------------------------------------------------------------
\* Nothing is being deleted.
Uploading == \A r \in Requests : pc[r] \notin DeletingPc

\* A handler past compute_sha512 has its artifact file, or a refused duplicate has
\* removed it; past file_hash_save it has its signature file.
Saved ==
  \A r \in Requests :
    /\ pc[r] \in {"findSig", "placeSig", "commit"} => art[r] \in files \cup dropped
    /\ pc[r] = "placeSig" /\ found[r] => sgn[r] \in files
    /\ pc[r] = "commit" /\ sgn[r] # NoFile => sgn[r] \in files

\* What ArtifactsAreKept says while nothing is deleted.
Kept == packages \subseteq files \cup dropped

UploadInv == Uploading /\ Saved /\ Kept /\ SignaturesAreKept

LEMMA UploadStepKeeps ==
  ASSUME "delete" \notin Ops, TypeInv, TypeInv', UploadInv, [Next]_vars
  PROVE  UploadInv'
<1> USE DEF SavingPc, DeletingPc
<1>1. ASSUME NEW r \in Requests, Receive(r)
      PROVE  UploadInv'
  BY <1>1 DEF Receive, UploadInv, Uploading, Saved, Kept, SignaturesAreKept, TypeInv, TypeOK, tables
<1>2. ASSUME NEW r \in Requests, Find(r)
      PROVE  UploadInv'
  BY <1>2 DEF Find, Name, UploadInv, Uploading, Saved, Kept, SignaturesAreKept, TypeInv, TypeOK, tables
<1>3. ASSUME NEW r \in Requests, Place(r)
      PROVE  UploadInv'
  <2>1. files \subseteq files'
    BY <1>3 DEF Place
  <2>2. pc[r] = "placeSig" => sgn[r] \in files'
    BY <1>3 DEF Place, Name, UploadInv, Saved
  <2> QED BY <1>3, <2>1, <2>2
         DEF Place, Go, UploadInv, Uploading, Saved, Kept, SignaturesAreKept, TypeInv, TypeOK, tables
<1>4. ASSUME NEW r \in Requests, SaveFails(r)
      PROVE  UploadInv'
  BY <1>4 DEF SaveFails, Finish, UploadInv, Uploading, Saved, Kept, SignaturesAreKept, TypeInv, TypeOK, tables
<1>5. ASSUME NEW r \in Requests, Query(r)
      PROVE  UploadInv'
  BY <1>5 DEF Query, Go, UploadInv, Uploading, Saved, Kept, SignaturesAreKept, TypeInv, TypeOK, tables
<1>6. ASSUME NEW r \in Requests, Drop(r)
      PROVE  UploadInv'
  <2>1. art[r] \in Artifacts /\ files' = files \ {art[r]} /\ dropped' = dropped \cup {art[r]}
    BY <1>6 DEF Drop, TypeInv, Working
  <2>2. \A s \in Signatures : s \in files => s \in files'
    BY <2>1, ContentsDiffer
  <2>3. \A a \in files \cup dropped : a \in files' \cup dropped'
    BY <2>1
  <2> QED BY <1>6, <2>2, <2>3
         DEF Drop, Finish, UploadInv, Uploading, Saved, Kept, SignaturesAreKept, TypeInv, TypeOK,
             Working, SignaturePc, tables
<1>7. ASSUME NEW r \in Requests, Digest(r)
      PROVE  UploadInv'
  BY <1>7 DEF Digest, Go, Finish, UploadInv, Uploading, Saved, Kept, SignaturesAreKept, TypeInv, TypeOK, tables
<1>8. ASSUME NEW r \in Requests, Commit(r)
      PROVE  UploadInv'
  BY <1>8 DEF Commit, Finish, UploadInv, Uploading, Saved, Kept, SignaturesAreKept, TypeInv, TypeOK, tables
<1>9. ASSUME NEW r \in Requests, DeleteStep(r)
      PROVE  UploadInv'
  BY <1>9 DEF DeleteStep, BeginDelete, Look, Remove, CommitDelete, UploadInv, Uploading
<1>10. ASSUME NEW r \in Requests, CommitFails(r)
       PROVE  UploadInv'
  BY <1>10 DEF CommitFails, Finish, UploadInv, Uploading, Saved, Kept, SignaturesAreKept, TypeInv, TypeOK, tables
<1>11. CASE Crash
  BY <1>11 DEF Crash, UploadInv, Uploading, Saved, Kept, SignaturesAreKept, tables
<1>12. CASE UNCHANGED vars
  BY <1>12 DEF vars, UploadInv, Uploading, Saved, Kept, SignaturesAreKept
<1> QED BY <1>1, <1>2, <1>3, <1>4, <1>5, <1>6, <1>7, <1>8, <1>9, <1>10, <1>11, <1>12
       DEF Next, UploadStep

LEMMA UploadInvariant == ASSUME "delete" \notin Ops PROVE Spec => []UploadInv
<1>1. Init => UploadInv
  BY DEF Init, UploadInv, Uploading, Saved, Kept, SignaturesAreKept, DeletingPc
<1>2. TypeInv /\ TypeInv' /\ UploadInv /\ [Next]_vars => UploadInv'
  BY UploadStepKeeps
<1> QED BY <1>1, <1>2, TypeInvariant, PTL DEF Spec

\* While nothing is deleted, a package has its artifact file unless a refused
\* duplicate has removed it, whatever the uploads' interleaving in file_hash_save.
THEOREM UploadsKeepArtifacts ==
  ASSUME "delete" \notin Ops PROVE Spec => []ArtifactsAreKept
<1>1. UploadInv => ArtifactsAreKept
  BY DEF UploadInv, Kept, ArtifactsAreKept
<1> QED BY <1>1, UploadInvariant, PTL

\* While nothing is deleted, a package that names a signature file has it.
THEOREM UploadsKeepSignatures ==
  ASSUME "delete" \notin Ops PROVE Spec => []SignaturesAreKept
<1>1. UploadInv => SignaturesAreKept
  BY DEF UploadInv
<1> QED BY <1>1, UploadInvariant, PTL

-----------------------------------------------------------------------------
(* One handler after the other *)

\* Where the handler stands with the file it is about to save or remove, and what
\* it has read: nobody else can have made it stale.
UpToDate(r) ==
  /\ pc[r] \in {"place", "placeSig", "remove", "removeSig"} => (found[r] <=> Name(r) \in files)
  /\ pc[r] \in {"digest", "findSig", "placeSig", "commit"} => art[r] \notin packages
  /\ pc[r] \in DeletingPc => art[r] \in packages /\ sgn[r] = signature[art[r]]
  /\ pc[r] \in {"lookSig", "removeSig", "commitDelete"} => art[r] \notin files
  /\ pc[r] = "commitDelete" => sgn[r] \notin files

SoloInv == \A r \in Requests : UpToDate(r) /\ files \subseteq SavedBy(r) \cup Named \cup abandoned

\* What the only handler there is abandons.
LEMMA SoloAbandons ==
  ASSUME NEW r, Requests = {r}, Abandon({r}) \/ Abandon(Requests)
  PROVE  \A f \in files : f \in SavedBy(r) \cup Named \cup abandoned => f \in Named \cup abandoned'
<1>1. PICK rs : rs = {r} /\ Abandon(rs)
  BY Zenon
<1> DEFINE saved == UNION {SavedBy(q) : q \in rs}
<1>2. saved = SavedBy(r)
  BY <1>1, Zenon
<1>3. abandoned' = abandoned \cup ((saved \cap files) \ Named)
  BY <1>1 DEF Abandon
<1> HIDE DEF saved
<1> QED BY <1>2, <1>3

LEMMA SoloStep ==
  ASSUME NEW r, Requests = {r}, TypeInv, TypeInv', SoloInv, [Next]_vars
  PROVE  SoloInv'
<1> USE DEF SoloInv, TypeInv, TypeOK, Working, SavingPc, DeletingPc, SignaturePc, SavedBy, UpToDate,
            Named, Name, tables
<1>1. CASE Receive(r)
  BY <1>1 DEF Receive
<1>2. CASE Find(r)
  <2>1. found' = [found EXCEPT ![r] = Name(r) \in files]
    BY <1>2 DEF Find
  <2>2. (found'[r] <=> Name(r) \in files) /\ UNCHANGED <<files, packages, signature, art, sgn, abandoned>>
    BY <1>2, <2>1, Zenon DEF Find
  <2>3. \/ pc[r] = "find" /\ pc'[r] = "place"
        \/ pc[r] = "findSig" /\ pc'[r] = "placeSig"
    BY <1>2 DEF Find
  <2> QED BY <2>2, <2>3
<1>3. CASE Place(r)
  BY <1>3 DEF Place, Go
<1>4. CASE Query(r)
  BY <1>4 DEF Query, Go
<1>5. CASE Drop(r)
  BY <1>5 DEF Drop, Finish
<1>6. CASE Digest(r)
  BY <1>6 DEF Digest, Go, Finish
<1>7. CASE Commit(r)
  BY <1>7 DEF Commit, Finish
<1>8. CASE BeginDelete(r)
  BY <1>8 DEF BeginDelete
<1>9. CASE Look(r)
  <2>1. found' = [found EXCEPT ![r] = Name(r) \in files]
    BY <1>9 DEF Look
  <2>2. (found'[r] <=> Name(r) \in files) /\ UNCHANGED <<files, packages, signature, art, sgn, abandoned>>
    BY <1>9, <2>1, Zenon DEF Look
  <2>3. \/ pc[r] = "look" /\ pc'[r] = "remove"
        \/ pc[r] = "lookSig" /\ pc'[r] = "removeSig"
    BY <1>9 DEF Look
  <2> QED BY <2>2, <2>3
<1>10. CASE Remove(r)
  BY <1>10, ContentsDiffer DEF Remove, Go, Finish
<1>11. CASE CommitDelete(r)
  BY <1>11, ContentsDiffer DEF CommitDelete, Finish
<1>12. CASE UNCHANGED vars
  BY <1>12 DEF vars
<1>13. CASE SaveFails(r)
  BY <1>13, SoloAbandons DEF SaveFails, Finish
<1>14. CASE CommitFails(r)
  BY <1>14, SoloAbandons DEF CommitFails, Finish
<1>15. CASE Crash
  BY <1>15, SoloAbandons DEF Crash
<1> QED BY <1>1, <1>2, <1>3, <1>4, <1>5, <1>6, <1>7, <1>8, <1>9, <1>10, <1>11, <1>12, <1>13, <1>14, <1>15
       DEF Next, UploadStep, DeleteStep

\* Handlers that do not overlap leave no file behind that no row names and no handler
\* still works on, however their transactions fail and the server crashes, but what
\* an upload had saved when an error ended it (package_add_single_post,
\* package_files_delete).
THEOREM NothingIsOrphaned ==
  ASSUME NEW r, Requests = {r}
  PROVE  Spec => []NoOrphans
<1>1. Init => SoloInv
  BY DEF Init, SoloInv, UpToDate, DeletingPc
<1>2. TypeInv /\ TypeInv' /\ SoloInv /\ [Next]_vars => SoloInv'
  BY SoloStep
<1>3. TypeInv /\ SoloInv => NoOrphans
  BY DEF SoloInv, NoOrphans, SavedBy
<1> QED BY <1>1, <1>2, <1>3, TypeInvariant, PTL DEF Spec
=============================================================================
