-------------------------- MODULE ReleaseRowsProofs --------------------------
(***************************************************************************)
(* What holds of ReleaseRows for every number of handlers, users, keys and *)
(* names, and whatever the remote data are: committees have their          *)
(* projects, links have their ends, keys are deleted by their owners, and  *)
(* an update that had no other beside it leaves what it was asked for.     *)
(***************************************************************************)
EXTENDS ReleaseRows, Recursions

\* What a handler that has read something knows of it.
Knows(h) ==
  LET r == request[h]
  IN  /\ r.at = "add" => r.user \in Users /\ r.selected \subseteq SessionOf[r.user]
      /\ r.at \in {"delete", "links"} =>
           \A f \in DOMAIN r.read :
             r.read[f].owner = r.user /\ r.read[f].added \in Nat /\ r.read[f].added <= added
      /\ r.at = "links" =>
           \A f \in DOMAIN r.read \cap DOMAIN keys :
             keys[f] = r.read[f] => \A l \in links : l[2] = f => l \in r.links

HandlerInv ==
  /\ request = [h \in Handlers |-> request[h]]
  /\ added \in Nat
  /\ \A f \in DOMAIN keys : keys[f].added \in Nat /\ keys[f].added <= added
  /\ \A h \in Handlers : Knows(h)

RowsInv == HandlerInv /\ LinksHaveEnds /\ CoreProjects

\* A step of one handler leaves what the others are doing alone.
LEMMA DoesOne ==
  ASSUME HandlerInv, NEW h \in Handlers, NEW r, Does(h, r)
  PROVE  /\ request' = [g \in Handlers |-> request'[g]]
         /\ request'[h] = r
         /\ \A g \in Handlers : g # h => request'[g] = request[g]
BY DEF HandlerInv, Does

\* An idle handler knows nothing.
LEMMA IdleKnows ==
  ASSUME NEW h \in Handlers, request'[h].at \notin {"add", "delete", "links"}
  PROVE  Knows(h)'
BY DEF Knows

\* What a handler knows stays true while the keys and their links do.
LEMMA KnowsOn ==
  ASSUME NEW h \in Handlers, Knows(h), request'[h] = request[h], UNCHANGED <<keys, links, added>>
  PROVE  Knows(h)'
BY DEF Knows

\* A step of handler h that changes no key, no link, and no committee.
LEMMA ReadingKeeps ==
  ASSUME RowsInv, NEW h \in Handlers, NEW r, Does(h, r), UNCHANGED rows, Knows(h)'
  PROVE  RowsInv'
<1>1. HandlerInv'
  <2>1. \A g \in Handlers : Knows(g)'
    BY DoesOne, KnowsOn DEF RowsInv, HandlerInv, rows
  <2>2. request' = [g \in Handlers |-> request'[g]]
    BY DoesOne DEF RowsInv
  <2> QED BY <2>1, <2>2 DEF RowsInv, HandlerInv, rows
<1>2. LinksHaveEnds' /\ CoreProjects'
  BY DEF RowsInv, LinksHaveEnds, CoreProjects, rows
<1> QED BY <1>1, <1>2 DEF RowsInv

LEMMA InitRows == Init => RowsInv
<1> SUFFICES ASSUME Init
             PROVE  RowsInv
  OBVIOUS
<1>1. DOMAIN committees = {} /\ DOMAIN keys = {} /\ links = {} /\ added = 0
  BY DEF Init
<1>2. request = [h \in Handlers |-> request[h]] /\ \A h \in Handlers : request[h].at = "idle"
  BY DEF Init, Idle
<1> QED BY <1>1, <1>2 DEF RowsInv, HandlerInv, Knows, LinksHaveEnds, CoreProjects

LEMMA ReadsKeeps ==
  ASSUME RowsInv, NEW h \in Handlers, NEW u \in Users, NEW found \in SUBSET DOMAIN keys,
         \A f \in found : keys[f].owner = u, Reads(h, u, found)
  PROVE  RowsInv'
<1> DEFINE r == [at |-> "delete", user |-> u, read |-> [f \in found |-> keys[f]]]
<1>1. Does(h, r) /\ UNCHANGED rows
  BY DEF Reads
<1>2. request'[h] = r
  BY <1>1, DoesOne DEF RowsInv
<1>3. Knows(h)'
  BY <1>1, <1>2 DEF Knows, RowsInv, HandlerInv, rows
<1> QED BY <1>1, <1>3, ReadingKeeps

LEMMA ReadLinksKeeps ==
  ASSUME RowsInv, NEW h \in Handlers, ReadLinks(h)
  PROVE  RowsInv'
<1> DEFINE r == [at |-> "links", user |-> request[h].user, read |-> request[h].read,
                 links |-> {l \in links : l[2] \in DOMAIN request[h].read}]
<1>1. Does(h, r) /\ UNCHANGED rows /\ request[h].at = "delete"
  BY DEF ReadLinks
<1>2. request'[h] = r
  BY <1>1, DoesOne DEF RowsInv
<1>3. Knows(h)'
  BY <1>1, <1>2 DEF Knows, RowsInv, HandlerInv, rows
<1> QED BY <1>1, <1>3, ReadingKeeps

\* The remaining steps that only read.
LEMMA OtherReadsKeep ==
  ASSUME RowsInv, NEW h \in Handlers,
         AddKey(h) \/ CreateCandidate(h) \/ StartUpdate(h) \/ Fetch(h) \/ Fail(h)
  PROVE  RowsInv'
<1>1. CASE AddKey(h)
  <2>1. PICK u \in Users, f \in Fingerprints : \E selected \in SUBSET SessionOf[u] :
          Does(h, [at |-> "add", user |-> u, key |-> f, selected |-> selected])
    BY <1>1 DEF AddKey
  <2>2. PICK selected \in SUBSET SessionOf[u] :
          Does(h, [at |-> "add", user |-> u, key |-> f, selected |-> selected])
    BY <2>1
  <2> DEFINE r == [at |-> "add", user |-> u, key |-> f, selected |-> selected]
  <2>3. request'[h] = r
    BY <2>2, DoesOne DEF RowsInv
  <2>4. Knows(h)'
    BY <2>3 DEF Knows
  <2> QED BY <1>1, <2>2, <2>4, ReadingKeeps DEF AddKey
<1>2. ASSUME NEW r, Does(h, r), r.at \notin {"add", "delete", "links"}, UNCHANGED rows
      PROVE  RowsInv'
  BY <1>2, DoesOne, IdleKnows, ReadingKeeps DEF RowsInv
<1>3. CASE CreateCandidate(h)
  <2>1. PICK p, c : Does(h, [at |-> "create", committee |-> c, project |-> p, found |-> p \in DOMAIN projects])
    BY <1>3 DEF CreateCandidate
  <2> QED BY <1>2, <1>3, <2>1 DEF CreateCandidate
<1>4. CASE StartUpdate(h)
  BY <1>2, <1>4 DEF StartUpdate
<1>5. CASE Fetch(h)
  BY <1>2, <1>5 DEF Fetch
<1>6. CASE Fail(h)
  BY <1>2, <1>6 DEF Fail, Ends, Idle
<1> QED BY <1>1, <1>3, <1>4, <1>5, <1>6

\* The end of an update is seen by the other updates only.
LEMMA UpdatedKnows ==
  ASSUME HandlerInv, NEW h \in Handlers, Updated(h), UNCHANGED <<keys, links, added>>
  PROVE  HandlerInv'
<1>1. request' = [g \in Handlers |-> request'[g]]
  BY DEF Updated
<1>2. ASSUME NEW g \in Handlers
      PROVE  Knows(g)'
  <2>1. CASE g = h
    <3>1. request'[g].at = "idle"
      BY <2>1 DEF Updated, Idle
    <3> QED BY <3>1, IdleKnows
  <2>2. CASE g # h /\ request[g].at \in {"look", "write"}
    <3>1. request'[g] = [request[g] EXCEPT !.mixed = TRUE]
      BY <2>2 DEF Updated
    <3>2. request'[g].at = request[g].at
      BY <3>1
    <3> QED BY <2>2, <3>2, IdleKnows
  <2>3. CASE g # h /\ request[g].at \notin {"look", "write"}
    <3>1. request'[g] = request[g]
      BY <2>3 DEF Updated
    <3> QED BY <3>1, KnowsOn DEF HandlerInv
  <2> QED BY <2>1, <2>2, <2>3
<1> QED BY <1>1, <1>2 DEF HandlerInv

LEMMA LookKeeps ==
  ASSUME RowsInv, NEW h \in Handlers, Look(h)
  PROVE  RowsInv'
<1>1. UNCHANGED rows
  BY DEF Look
<1>2. CASE Updated(h)
  <2>1. HandlerInv'
    BY <1>1, <1>2, UpdatedKnows DEF RowsInv, rows
  <2> QED BY <1>1, <2>1 DEF RowsInv, LinksHaveEnds, CoreProjects, rows
<1>3. CASE ~Updated(h)
  <2> DEFINE i == request[h].next
             visits == Visits(request[h].versions)
             held == Held(visits, i)
  <2>1. \/ Does(h, [at |-> "write", versions |-> request[h].versions, next |-> i,
                    mixed |-> request[h].mixed, held |-> held])
        \/ Does(h, [request[h] EXCEPT !.next = @ + 1]) /\ request[h].at = "look"
    BY <1>3, Zenon DEF Look
  <2> HIDE DEF held, i
  <2>2. ASSUME NEW r, Does(h, r), r.at \in {"write", "look"}
        PROVE  RowsInv'
    BY <1>1, <2>2, DoesOne, IdleKnows, ReadingKeeps DEF RowsInv
  <2>3. CASE Does(h, [at |-> "write", versions |-> request[h].versions, next |-> i,
                      mixed |-> request[h].mixed, held |-> held])
    BY <2>2, <2>3
  <2>4. CASE Does(h, [request[h] EXCEPT !.next = @ + 1]) /\ request[h].at = "look"
    <3> DEFINE r == [request[h] EXCEPT !.next = @ + 1]
    <3>1. r.at = "look"
      BY <2>4
    <3> HIDE DEF r
    <3>2. Does(h, r)
      BY <2>4 DEF r
    <3> QED BY <2>2, <3>1, <3>2
  <2> QED BY <2>1, <2>3, <2>4
<1> QED BY <1>2, <1>3

LEMMA OverIs ==
  ASSUME NEW f, NEW g
  PROVE  /\ DOMAIN Over(f, g) = DOMAIN f \cup DOMAIN g
         /\ \A k \in DOMAIN f : Over(f, g)[k] = f[k]
         /\ \A k \in DOMAIN g \ DOMAIN f : Over(f, g)[k] = g[k]
BY DEF Over

\* A handler that is done, and another that is not.
LEMMA EndsOne ==
  ASSUME HandlerInv, NEW h \in Handlers, Ends(h)
  PROVE  /\ request' = [g \in Handlers |-> request'[g]]
         /\ request'[h].at = "idle"
         /\ \A g \in Handlers : g # h => request'[g] = request[g]
BY DoesOne DEF Ends, Idle

LEMMA InsertKeyKeeps ==
  ASSUME RowsInv, NEW h \in Handlers, InsertKey(h)
  PROVE  RowsInv'
<1> DEFINE f == request[h].key
           row == [owner |-> request[h].user, added |-> added + 1]
           new == {<<c, f>> : c \in request[h].selected \cap DOMAIN committees}
<1>1. /\ f \notin DOMAIN keys
      /\ keys' = Over(keys, [k \in {f} |-> row])
      /\ links' = links \cup new
      /\ added' = added + 1 /\ Ends(h) /\ request[h].at = "add"
      /\ UNCHANGED <<committees, projects, stray>>
  BY DEF InsertKey
<1>2. /\ DOMAIN keys' = DOMAIN keys \cup {f}
      /\ \A k \in DOMAIN keys : keys'[k] = keys[k]
      /\ keys'[f] = row
  <2> DEFINE one == [k \in {f} |-> row]
  <2>1. DOMAIN one = {f} /\ one[f] = row /\ keys' = Over(keys, one)
    BY <1>1
  <2> HIDE DEF one, row, f
  <2>2. /\ DOMAIN Over(keys, one) = DOMAIN keys \cup DOMAIN one
        /\ \A k \in DOMAIN keys : Over(keys, one)[k] = keys[k]
        /\ \A k \in DOMAIN one \ DOMAIN keys : Over(keys, one)[k] = one[k]
    BY OverIs
  <2>3. f \in DOMAIN one \ DOMAIN keys
    BY <1>1, <2>1
  <2> QED BY <2>1, <2>2, <2>3
<1>3. row.owner = request[h].user /\ row.added = added + 1
  OBVIOUS
<1>4. \A l \in new : l[2] = f /\ l[1] \in DOMAIN committees /\ l[1] \in request[h].selected
  OBVIOUS
<1> HIDE DEF f, row, new
<1>5. HandlerInv /\ added \in Nat /\ Knows(h)
  BY DEF RowsInv, HandlerInv
<1>6. ASSUME NEW g \in Handlers
      PROVE  Knows(g)'
  <2>1. CASE g = h
    BY <1>1, <1>5, <2>1, EndsOne, IdleKnows
  <2>2. CASE g # h
    <3>1. request'[g] = request[g] /\ Knows(g)
      BY <1>1, <1>5, <2>2, EndsOne DEF HandlerInv
    <3>2. request[g].at \in {"delete", "links"} =>
            \A k \in DOMAIN request[g].read :
              /\ request[g].read[k].added \in Nat /\ request[g].read[k].added <= added
              /\ request[g].read[k] # row
      BY <1>3, <1>5, <3>1 DEF Knows
    <3>3. request[g].at \in {"delete", "links"} =>
            \A k \in DOMAIN request[g].read : request[g].read[k].added <= added'
      <4> SUFFICES ASSUME request[g].at \in {"delete", "links"}, NEW k \in DOMAIN request[g].read
                   PROVE  request[g].read[k].added <= added'
        OBVIOUS
      <4>1. request[g].read[k].added \in Nat /\ request[g].read[k].added <= added
        BY <3>2
      <4> QED BY <1>1, <1>5, <4>1
    <3>4. request[g].at = "links" =>
            \A k \in DOMAIN request[g].read \cap DOMAIN keys' :
              keys'[k] = request[g].read[k] => \A l \in links' : l[2] = k => l \in request[g].links
      <4> SUFFICES ASSUME request[g].at = "links", NEW k \in DOMAIN request[g].read \cap DOMAIN keys',
                          keys'[k] = request[g].read[k], NEW l \in links', l[2] = k
                   PROVE  l \in request[g].links
        OBVIOUS
      <4>1. k # f
        BY <1>2, <3>2
      <4> QED BY <1>1, <1>2, <1>4, <3>1, <4>1 DEF Knows
    <3> QED BY <3>1, <3>3, <3>4 DEF Knows
  <2> QED BY <2>1, <2>2
<1>7. HandlerInv'
  <2>1. \A k \in DOMAIN keys' : keys'[k].added \in Nat /\ keys'[k].added <= added'
    BY <1>1, <1>2, <1>3, <1>5 DEF HandlerInv
  <2>2. request' = [g \in Handlers |-> request'[g]]
    BY <1>1, <1>5, EndsOne
  <2> QED BY <1>1, <1>5, <1>6, <2>1, <2>2 DEF HandlerInv
<1>8. LinksHaveEnds'
  <2> SUFFICES ASSUME NEW l \in links'
               PROVE  /\ l[1] \in DOMAIN committees'
                      /\ l \in stray' \/ (l[2] \in DOMAIN keys' /\ l[1] \in SessionOf[keys'[l[2]].owner])
    BY DEF LinksHaveEnds
  <2>1. CASE l \in links
    BY <1>1, <1>2, <2>1 DEF RowsInv, LinksHaveEnds
  <2>2. CASE l \in new
    BY <1>1, <1>2, <1>3, <1>4, <1>5, <2>2 DEF Knows
  <2> QED BY <1>1, <2>1, <2>2
<1> QED BY <1>1, <1>7, <1>8 DEF RowsInv, CoreProjects

LEMMA CommitDeleteKeeps ==
  ASSUME RowsInv, NEW h \in Handlers, CommitDelete(h)
  PROVE  RowsInv'
<1> DEFINE read == request[h].read
           deleted == DOMAIN read \cap DOMAIN keys
<1>1. /\ request[h].at = "links" /\ Ends(h)
      /\ keys' = [f \in DOMAIN keys \ deleted |-> keys[f]]
      /\ links' = links \ request[h].links
      /\ stray' = {l \in links' : l \in stray \/ (l[2] \in deleted /\ keys[l[2]] # read[l[2]])}
      /\ UNCHANGED <<committees, projects, added>>
  BY DEF CommitDelete, Unlinked
<1>2. HandlerInv /\ Knows(h)
  BY DEF RowsInv, HandlerInv
<1>3. DOMAIN keys' \subseteq DOMAIN keys /\ \A f \in DOMAIN keys' : keys'[f] = keys[f]
  BY <1>1
<1>4. ASSUME NEW g \in Handlers
      PROVE  Knows(g)'
  <2>1. CASE g = h
    BY <1>1, <1>2, <2>1, EndsOne, IdleKnows
  <2>2. CASE g # h
    <3>1. request'[g] = request[g] /\ Knows(g)
      BY <1>1, <1>2, <2>2, EndsOne DEF HandlerInv
    <3> QED BY <1>1, <1>3, <3>1 DEF Knows
  <2> QED BY <2>1, <2>2
<1>5. HandlerInv'
  <2>1. request' = [g \in Handlers |-> request'[g]]
    BY <1>1, <1>2, EndsOne
  <2> QED BY <1>1, <1>2, <1>3, <1>4, <2>1 DEF HandlerInv
<1>6. LinksHaveEnds'
  <2> SUFFICES ASSUME NEW l \in links', l \notin stray'
               PROVE  l[1] \in DOMAIN committees' /\ l[2] \in DOMAIN keys' /\ l[1] \in SessionOf[keys'[l[2]].owner]
    BY <1>1 DEF RowsInv, LinksHaveEnds
  <2>1. l[2] \in DOMAIN keys /\ l[1] \in SessionOf[keys[l[2]].owner] /\ l[1] \in DOMAIN committees
    BY <1>1 DEF RowsInv, LinksHaveEnds
  <2>2. l[2] \notin deleted
    BY <1>1, <1>2, <2>1 DEF Knows
  <2> QED BY <1>1, <2>1, <2>2
<1> QED BY <1>1, <1>5, <1>6 DEF RowsInv, CoreProjects

\* A project that is there stays with its committee.
LEMMA InsertReleaseKeeps ==
  ASSUME RowsInv, NEW h \in Handlers, InsertRelease(h)
  PROVE  RowsInv'
<1> DEFINE one == [k \in {request[h].project} |-> request[h].committee]
<1>1. /\ projects' = Over(projects, one) /\ Ends(h)
      /\ UNCHANGED <<committees, keys, links, added, stray>>
  BY DEF InsertRelease
<1> HIDE DEF one
<1>2. \A k \in DOMAIN projects : k \in DOMAIN projects' /\ projects'[k] = projects[k]
  BY <1>1, OverIs
<1>3. HandlerInv'
  <2>1. ASSUME NEW g \in Handlers
        PROVE  Knows(g)'
    <3>1. CASE g = h
      BY <1>1, <3>1, EndsOne, IdleKnows DEF RowsInv
    <3>2. CASE g # h
      BY <1>1, <3>2, EndsOne, KnowsOn DEF RowsInv, HandlerInv
    <3> QED BY <3>1, <3>2
  <2>2. request' = [g \in Handlers |-> request'[g]]
    BY <1>1, EndsOne DEF RowsInv
  <2> QED BY <1>1, <2>1, <2>2 DEF RowsInv, HandlerInv
<1>4. LinksHaveEnds' /\ CoreProjects'
  BY <1>1, <1>2 DEF RowsInv, LinksHaveEnds, CoreProjects
<1> QED BY <1>3, <1>4 DEF RowsInv

\* Every committee that an update adds comes with its project, and no other
\* project is touched.
LEMMA CommitUpdateKeeps ==
  ASSUME RowsInv, NEW h \in Handlers, CommitUpdate(h)
  PROVE  RowsInv'
<1> DEFINE names == {v.name : v \in Range(Rest(h))}
           new == names \ DOMAIN committees
           written == [n \in names |-> RowAfter(h, n)]
           cores == [n \in new |-> CoreProject(n)]
<1>1. /\ new \cap DOMAIN projects = {}
      /\ committees' = Over(written, committees)
      /\ projects' = Over(cores, projects)
      /\ Updated(h)
      /\ UNCHANGED <<keys, links, added, stray>>
  BY DEF CommitUpdate
<1>2. DOMAIN written = names /\ DOMAIN cores = new /\ \A n \in new : cores[n] = n
  BY DEF CoreProject
<1>3. \A n \in names : n \in new \/ n \in DOMAIN committees
  OBVIOUS
<1> HIDE DEF names, new, written, cores
<1>4. HandlerInv'
  BY <1>1, UpdatedKnows DEF RowsInv
<1>5. DOMAIN committees' = DOMAIN committees \cup names
  BY <1>1, <1>2, OverIs
<1>6. /\ DOMAIN projects' = new \cup DOMAIN projects
      /\ \A n \in new : projects'[n] = n
      /\ \A n \in DOMAIN projects \ new : projects'[n] = projects[n]
  <2>1. /\ DOMAIN Over(cores, projects) = DOMAIN cores \cup DOMAIN projects
        /\ \A k \in DOMAIN cores : Over(cores, projects)[k] = cores[k]
        /\ \A k \in DOMAIN projects \ DOMAIN cores : Over(cores, projects)[k] = projects[k]
    BY OverIs
  <2> QED BY <1>1, <1>2, <2>1
<1>7. \A n \in DOMAIN projects : n \in DOMAIN projects' /\ projects'[n] = projects[n]
  BY <1>1, <1>6
<1>8. LinksHaveEnds'
  BY <1>1, <1>5 DEF RowsInv, LinksHaveEnds
<1>9. CoreProjects'
  BY <1>3, <1>5, <1>6, <1>7 DEF RowsInv, CoreProjects
<1> QED BY <1>4, <1>8, <1>9 DEF RowsInv

\* No step breaks the invariant.
LEMMA StepKeepsRows == RowsInv /\ [Next]_vars => RowsInv'
<1> SUFFICES ASSUME RowsInv, [Next]_vars
             PROVE  RowsInv'
  OBVIOUS
<1>1. ASSUME UNCHANGED <<request, rows>>
      PROVE  RowsInv'
  <2>1. \A g \in Handlers : Knows(g)'
    BY <1>1, KnowsOn DEF RowsInv, HandlerInv, rows
  <2> QED BY <1>1, <2>1 DEF RowsInv, HandlerInv, LinksHaveEnds, CoreProjects, rows
<1>2. CASE UNCHANGED vars
  BY <1>1, <1>2 DEF vars
<1>3. CASE Publish
  BY <1>1, <1>3 DEF Publish
<1>4. ASSUME NEW h \in Handlers, Handle(h)
      PROVE  RowsInv'
  <2>1. CASE AddKey(h) \/ CreateCandidate(h) \/ StartUpdate(h) \/ Fetch(h) \/ Fail(h)
    BY <2>1, OtherReadsKeep
  <2>2. CASE InsertKey(h)
    BY <2>2, InsertKeyKeeps
  <2>3. CASE DeleteKey(h)
    <3>1. PICK u \in Users, f \in DOMAIN keys : keys[f].owner = u /\ Reads(h, u, {f})
      BY <2>3 DEF DeleteKey
    <3> DEFINE found == {f}
    <3>2. found \in SUBSET DOMAIN keys /\ \A k \in found : keys[k].owner = u
      BY <3>1
    <3> QED BY <3>1, <3>2, ReadsKeeps
  <2>4. CASE DeleteAllKeys(h)
    <3>1. PICK u \in Users : Reads(h, u, {f \in DOMAIN keys : keys[f].owner = u})
      BY <2>4 DEF DeleteAllKeys
    <3> DEFINE found == {f \in DOMAIN keys : keys[f].owner = u}
    <3>2. found \in SUBSET DOMAIN keys /\ \A k \in found : keys[k].owner = u
      OBVIOUS
    <3> HIDE DEF found
    <3>3. Reads(h, u, found)
      BY <3>1 DEF found
    <3> QED BY <3>2, <3>3, ReadsKeeps
  <2>5. CASE ReadLinks(h)
    BY <2>5, ReadLinksKeeps
  <2>6. CASE CommitDelete(h)
    BY <2>6, CommitDeleteKeeps
  <2>7. CASE InsertRelease(h)
    BY <2>7, InsertReleaseKeeps
  <2>8. CASE Look(h)
    BY <2>8, LookKeeps
  <2>9. CASE CommitUpdate(h)
    BY <2>9, CommitUpdateKeeps
  <2> QED BY <1>4, <2>1, <2>2, <2>3, <2>4, <2>5, <2>6, <2>7, <2>8, <2>9 DEF Handle
<1> QED BY <1>2, <1>3, <1>4 DEF Next

\* A link made by keys/add leads from a committee that exists to a key that exists
\* and whose owner was in that committee, however requests interleave and fail, but
\* for the links that a deletion leaves behind when its key was deleted and added
\* again after it had read it (root_keys_delete, by the fingerprint alone).
THEOREM KeyLinksHaveEnds == Spec => []LinksHaveEnds
<1>1. RowsInv => LinksHaveEnds
  BY DEF RowsInv
<1> QED BY InitRows, StepKeepsRows, <1>1, PTL DEF Spec

\* However updates and new candidates are interleaved, and whatever the remote data
\* are, every committee has the project of its own name.
THEOREM CommitteesHaveTheirProjects == Spec => []CoreProjects
<1>1. RowsInv => CoreProjects
  BY DEF RowsInv
<1> QED BY InitRows, StepKeepsRows, <1>1, PTL DEF Spec

\* A project that is there stays there, with its committee, whatever candidates and
\* updates that did not find it when they looked come to add it (release_add_post,
\* _update_committees, the unique name of a project).
ProjectsStay == [][\A p \in DOMAIN projects : p \in DOMAIN projects' /\ projects'[p] = projects[p]]_vars

THEOREM ProjectsAreNotTakenOver == Spec => ProjectsStay
<1>1. [Next]_vars => [\A p \in DOMAIN projects : p \in DOMAIN projects' /\ projects'[p] = projects[p]]_vars
  <2> SUFFICES ASSUME Next, NEW p \in DOMAIN projects
               PROVE  p \in DOMAIN projects' /\ projects'[p] = projects[p]
    OBVIOUS
  <2>1. ASSUME NEW h \in Handlers, InsertRelease(h)
        PROVE  p \in DOMAIN projects' /\ projects'[p] = projects[p]
    <3>1. PICK one : projects' = Over(projects, one)
      BY <2>1 DEF InsertRelease
    <3> QED BY <3>1, OverIs
  <2>2. ASSUME NEW h \in Handlers, CommitUpdate(h)
        PROVE  p \in DOMAIN projects' /\ projects'[p] = projects[p]
    <3>1. PICK new : new \cap DOMAIN projects = {} /\ projects' = Over([n \in new |-> CoreProject(n)], projects)
      BY <2>2 DEF CommitUpdate
    <3> DEFINE cores == [n \in new |-> CoreProject(n)]
    <3>2. DOMAIN cores = new
      OBVIOUS
    <3> HIDE DEF cores
    <3>3. p \in DOMAIN projects \ DOMAIN cores /\ projects' = Over(cores, projects)
      BY <3>1, <3>2 DEF cores
    <3>4. /\ p \in DOMAIN Over(cores, projects)
          /\ Over(cores, projects)[p] = projects[p]
      BY <3>3 DEF Over
    <3> QED BY <3>3, <3>4
  <2>3. ASSUME UNCHANGED projects
        PROVE  p \in DOMAIN projects' /\ projects'[p] = projects[p]
    BY <2>3
  <2> QED BY <2>1, <2>2, <2>3 DEF Next, Handle, Publish, AddKey, InsertKey, DeleteKey, DeleteAllKeys, Reads, ReadLinks,
            CommitDelete, CreateCandidate, StartUpdate, Fetch, Look, Fail, rows
<1> QED BY <1>1, PTL DEF Spec, ProjectsStay

\* A key that is gone was deleted by its owner's request, which had read it.
LEMMA DeletionIsTheOwners ==
  ASSUME RowsInv, [Next]_vars, NEW f \in DOMAIN keys \ DOMAIN keys'
  PROVE  \E h \in Handlers :
           /\ request[h].at = "links" /\ f \in DOMAIN request[h].read
           /\ request[h].user = keys[f].owner \/ request[h].read[f] # keys[f]
<1>1. PICK h \in Handlers : InsertKey(h) \/ CommitDelete(h)
  BY DEF Next, Handle, Publish, AddKey, DeleteKey, DeleteAllKeys, Reads, ReadLinks, CreateCandidate,
         InsertRelease, StartUpdate, Fetch, Look, CommitUpdate, Fail, rows, vars
<1>2. ~InsertKey(h)
  <2> SUFFICES ASSUME InsertKey(h)
               PROVE  FALSE
    OBVIOUS
  <2>1. PICK one : keys' = Over(keys, one)
    BY DEF InsertKey
  <2> QED BY <2>1, OverIs
<1> DEFINE read == request[h].read
           deleted == DOMAIN read \cap DOMAIN keys
<1>3. /\ request[h].at = "links"
      /\ keys' = [k \in DOMAIN keys \ deleted |-> keys[k]]
  BY <1>1, <1>2 DEF CommitDelete
<1>4. f \in deleted
  BY <1>3
<1>5. keys[f] = read[f] => read[f].owner = request[h].user
  BY <1>3, <1>4 DEF RowsInv, HandlerInv, Knows
<1> QED BY <1>3, <1>4, <1>5

\* A key is only ever removed by a request of its owner, but for a row that took
\* the place of the one that was read.
THEOREM KeysAreTheirOwners == Spec => OnlyOwnersDelete
<1>1. RowsInv /\ [Next]_vars =>
        [\A f \in DOMAIN keys \ DOMAIN keys' :
           \E h \in Handlers :
             /\ request[h].at = "links" /\ f \in DOMAIN request[h].read
             /\ request[h].user = keys[f].owner \/ request[h].read[f] # keys[f]]_vars
  BY DeletionIsTheOwners
<1> QED BY InitRows, StepKeepsRows, <1>1, PTL DEF Spec, OnlyOwnersDelete

-----------------------------------------------------------------------------
(* Types, and whole updates *)

\* What has been read and is still to be used is of the right kind, and the rows that
\* it names are there.
Typed(h) ==
  LET r == request[h]
  IN  /\ r.at \in Places
      /\ r.at = "add" => r.user \in Users /\ r.key \in Fingerprints
      /\ r.at = "create" =>
           r.committee \in DOMAIN committees /\ r.project \in Names /\ (r.found => r.project \in DOMAIN projects)
      /\ r.at \in {"fetch", "look", "write"} => r.versions \in Seq(DOMAIN Remote)
      /\ r.at = "fetch" => Len(r.versions) < 3
      /\ r.at \in {"look", "write"} =>
           {"next", "mixed"} \subseteq DOMAIN r /\ Len(r.versions) = 3 /\ r.next \in 1..Len(Visits(r.versions))
      /\ r.at = "write" => r.held = <<>> \/ \E row \in Committee : r.held = <<row>>

RowTypes ==
  /\ RowsInv
  /\ TypeOK
  /\ \A h \in Handlers : Typed(h)

\* An update beside which there was no other knows the rows: those it has visited are
\* what they should be, and what it holds when it begins to write is there.
Seen(h) ==
  LET r == request[h]
      visits == Visits(r.versions)
  IN  /\ r.at \in {"look", "write"} /\ ~r.mixed =>
           \A j \in 1..r.next - 1 :
             visits[j].name \in DOMAIN committees /\ committees[visits[j].name] = visits[j].row
      /\ r.at = "write" /\ ~r.mixed =>
           LET name == visits[r.next].name
           IN  IF name \in DOMAIN committees THEN r.held = <<committees[name]>> ELSE r.held = <<>>

UpdateInv ==
  /\ RowTypes
  /\ UpdateIsWhole
  /\ \A h \in Handlers : Seen(h)

Visit == [name : Names, row : Committee]

\* The names that an update which begins to write visits.
Visited(h) == {v.name : v \in Range(Rest(h))}

LEMMA ConcatIs ==
  ASSUME NEW W, NEW a \in Seq(W), NEW b \in Seq(W)
  PROVE  a \o b \in Seq(W) /\ Len(a \o b) = Len(a) + Len(b)
OBVIOUS

\* The committees are visited in three lists, one after another.
LEMMA VisitsAre ==
  ASSUME NEW versions \in Seq(DOMAIN Remote), Len(versions) = 3
  PROVE  Visits(versions) \in Seq(Visit) /\ Len(Visits(versions)) \in Nat \ {0}
<1> DEFINE groups == Remote[versions[3]].groups
           Listed(names, podling) ==
             [i \in DOMAIN names |-> [name |-> names[i], row |-> [podling |-> podling, people |-> GroupOf(groups, names[i])]]]
           A == Listed(Remote[versions[1]].pmcs, FALSE)
           B == Listed(Remote[versions[2]].podlings, TRUE)
           C == <<[name |-> Tooling, row |-> [podling |-> FALSE, people |-> "tooling"]]>>
<1>1. versions[1] \in DOMAIN Remote /\ versions[2] \in DOMAIN Remote /\ versions[3] \in DOMAIN Remote
  OBVIOUS
<1>2. \A name \in Names : GroupOf(groups, name) \in People
  <2>1. ASSUME NEW name \in DOMAIN groups
        PROVE  groups[name] \in People
    <3>1. groups[name] \in Range(groups)
      BY DEF Range
    <3> HIDE DEF groups
    <3>2. Range(groups) \subseteq People
      BY <1>1 DEF People, groups
    <3> QED BY <3>1, <3>2
  <2>2. "nobody" \in People
    BY DEF People
  <2> QED BY <2>1, <2>2 DEF GroupOf
<1>3. ASSUME NEW names \in Seq(Names \ {Tooling}), NEW podling \in BOOLEAN
      PROVE  Listed(names, podling) \in Seq(Visit)
  <2>1. \A i \in 1..Len(names) :
          [name |-> names[i], row |-> [podling |-> podling, people |-> GroupOf(groups, names[i])]] \in Visit
    BY <1>2 DEF Visit, Committee
  <2> HIDE DEF groups
  <2> QED BY <2>1
<1>4. A \in Seq(Visit)
  <2>1. Remote[versions[1]].pmcs \in Seq(Names \ {Tooling})
    BY <1>1, RemoteLists
  <2> HIDE DEF Listed
  <2> QED BY <1>3, <2>1
<1>5. B \in Seq(Visit)
  <2>1. Remote[versions[2]].podlings \in Seq(Names \ {Tooling})
    BY <1>1, RemoteLists
  <2> HIDE DEF Listed
  <2> QED BY <1>3, <2>1
<1>6. C \in Seq(Visit) /\ Len(C) = 1
  <2>1. "tooling" \in People
    BY DEF People
  <2> QED BY <2>1, ToolingIsName DEF Visit, Committee
<1>7. Visits(versions) = (A \o B) \o C
  BY DEF Visits
<1> HIDE DEF A, B, C
<1> DEFINE D == A \o B
<1>8. D \in Seq(Visit)
  BY <1>4, <1>5, ConcatIs
<1> HIDE DEF D
<1>9. D \o C \in Seq(Visit) /\ Len(D \o C) = Len(D) + Len(C)
  BY <1>6, <1>8, ConcatIs
<1> QED BY <1>6, <1>7, <1>8, <1>9 DEF D

\* The first visit to a name.
LEMMA FirstIs ==
  ASSUME NEW visits \in Seq(Visit), NEW name
  PROVE  LET first == FirstVisit(visits, name)
         IN  IF \E i \in 1..Len(visits) : visits[i].name = name
             THEN first \in 1..Len(visits) /\ visits[first].name = name
             ELSE first = 0
<1> DEFINE first == FirstVisit(visits, name)
           I == {i \in 1..Len(visits) : visits[i].name = name}
<1>1. first = IF I # {} THEN CHOOSE x \in I : \A y \in I : x =< y ELSE 0
  BY DEF FirstVisit, SelectInSeq, Min
<1>2. I # {} => \E x \in I : \A y \in I : x =< y
  <2>1. I \in SUBSET Nat
    OBVIOUS
  <2> HIDE DEF I
  <2> QED BY <2>1, HasLeast
<1>3. I # {} => first \in I
  BY <1>1, <1>2
<1>4. I = {} => first = 0
  BY <1>1
<1> HIDE DEF first
<1>5. (\E i \in 1..Len(visits) : visits[i].name = name) <=> I # {}
  OBVIOUS
<1>6. first \in I => first \in 1..Len(visits) /\ visits[first].name = name
  OBVIOUS
<1> HIDE DEF I
<1>7. IF \E i \in 1..Len(visits) : visits[i].name = name
      THEN first \in 1..Len(visits) /\ visits[first].name = name
      ELSE first = 0
  BY <1>3, <1>4, <1>5, <1>6
<1> QED BY <1>7 DEF first

\* The row of a committee as the visits to it leave it: the one that the last of them
\* wanted, if the session took it to be what it was.
Leaves(row, visits, name, held, was) ==
  /\ row \in Committee
  /\ held = was =>
       \A j \in 1..Len(visits) :
         visits[j].name = name /\ (\A l \in j + 1..Len(visits) : visits[l].name # name) => row = visits[j].row

LEMMA AfterIs ==
  ASSUME NEW visits \in Seq(Visit), NEW name, NEW held \in Committee, NEW row \in Committee
  PROVE  Leaves(AfterVisits(visits, name, held, row), visits, name, held, row)
<1> DEFINE V == [held : Committee, row : Committee]
           n == Len(visits)
           first == [held |-> held, row |-> row]
           Made(k, s) == [held |-> visits[k].row, row |-> Changed(s.row, s.held, visits[k].row)]
           step == [p \in (Nat \ {0}) \X V |->
                      IF p[1] <= n /\ visits[p[1]].name = name THEN Made(p[1], p[2]) ELSE p[2]]
           after == CHOOSE after : after = [k \in 0..n |->
                      IF k = 0 THEN first
                      ELSE IF visits[k].name = name
                      THEN [held |-> visits[k].row, row |-> Changed(after[k - 1].row, after[k - 1].held, visits[k].row)]
                      ELSE after[k - 1]]
<1>1. AfterVisits(visits, name, held, row) = after[n].row
  BY DEF AfterVisits
<1>2. n \in Nat /\ first \in V
  OBVIOUS
<1>11. \A k \in 1..n : visits[k].row \in Committee
  <2>1. \A k \in 1..n : visits[k] \in Visit
    OBVIOUS
  <2> QED BY <2>1 DEF Visit
<1>3. ASSUME NEW k \in 1..n, NEW s \in V
      PROVE  Made(k, s) \in V
  <2>1. visits[k].row \in Committee
    BY <1>11
  <2>2. Changed(s.row, s.held, visits[k].row) \in Committee
    BY <2>1 DEF Changed, Committee
  <2> QED BY <2>1, <2>2
<1>4. step \in Steps(V)
  <2> HIDE DEF n, Made
  <2>1. ASSUME NEW k \in Nat \ {0}, NEW s \in V
        PROVE  (IF k <= n /\ visits[k].name = name THEN Made(k, s) ELSE s) \in V
    BY <1>2, <1>3
  <2> HIDE DEF V
  <2> QED BY <2>1 DEF Steps
<1>5. \A k \in 1..n, s \in V : step[<<k, s>>] = IF visits[k].name = name THEN Made(k, s) ELSE s
  <2> HIDE DEF Made, V
  <2> QED BY <1>2
<1>6. after = [k \in 0..n |->
                 IF k = 0 THEN first
                 ELSE IF visits[k].name = name THEN Made(k, after[k - 1]) ELSE after[k - 1]]
  <2>1. PICK g : UpTo(g, n, V, first, step)
    <3> HIDE DEF V, first, n, step
    <3> QED BY <1>2, <1>4, UpToExists
  <2>2. g = [k \in 0..n |-> IF k = 0 THEN first
                             ELSE IF visits[k].name = name THEN Made(k, g[k - 1]) ELSE g[k - 1]]
    <3> HIDE DEF V, first, step, Made, n
    <3>1. \A k \in 1..n : k - 1 \in 0..n
      BY <1>2
    <3>2. \A k \in 1..n : g[k] = IF visits[k].name = name THEN Made(k, g[k - 1]) ELSE g[k - 1]
      BY <2>1, <1>5, <3>1 DEF UpTo
    <3> QED BY <2>1, <3>2 DEF UpTo
  <2> QED BY <2>2, Zenon
<1> HIDE DEF after
<1> DEFINE Decides(k) ==
      held = row =>
        /\ after[k].held = after[k].row
        /\ \A j \in 1..k :
             visits[j].name = name /\ (\A l \in j + 1..k : visits[l].name # name) => after[k].row = visits[j].row
           S == {k \in Nat : k <= n => after[k] \in V /\ Decides(k)}
<1>7. 0 \in S
  <2>1. after[0] = first
    BY <1>2, <1>6
  <2>2. first.held = held /\ first.row = row
    OBVIOUS
  <2> QED BY <1>2, <2>1, <2>2
<1>8. ASSUME NEW k \in Nat, k \in S
      PROVE  k + 1 \in S
  <2> SUFFICES ASSUME k + 1 <= n
               PROVE  after[k + 1] \in V /\ Decides(k + 1)
    OBVIOUS
  <2>1. after[k] \in V /\ Decides(k)
    BY <1>2, <1>8
  <2>2. after[k + 1] = IF visits[k + 1].name = name THEN Made(k + 1, after[k]) ELSE after[k]
    <3>1. k + 1 \in 0..n /\ k + 1 # 0 /\ (k + 1) - 1 = k
      BY <1>2
    <3> HIDE DEF Made, first
    <3> QED BY <1>6, <3>1
  <2>3. CASE visits[k + 1].name = name
    <3>1. after[k + 1] = Made(k + 1, after[k]) /\ k + 1 \in 1..n
      BY <1>2, <2>2, <2>3
    <3>2. after[k + 1] \in V
      <4> HIDE DEF V, Made
      <4> QED BY <1>3, <2>1, <3>1
    <3>3. after[k + 1].held = visits[k + 1].row
      BY <3>1
    <3>4. held = row => after[k + 1].row = visits[k + 1].row
      <4>1. visits[k + 1].row \in Committee
        BY <1>11, <3>1
      <4>2. held = row => after[k].held = after[k].row
        BY <2>1
      <4>3. after[k + 1].row = Changed(after[k].row, after[k].held, visits[k + 1].row)
        BY <3>1
      <4> HIDE DEF V, after
      <4> QED BY <4>1, <4>2, <4>3 DEF Changed, Committee
    <3>5. \A j \in 1..k + 1 : (\A l \in j + 1..k + 1 : visits[l].name # name) => j = k + 1
      BY <2>3
    <3> QED BY <3>2, <3>3, <3>4, <3>5
  <2>4. CASE visits[k + 1].name # name
    <3>1. after[k + 1] = after[k]
      BY <2>2, <2>4
    <3>2. \A j \in 1..k + 1 : visits[j].name = name => j \in 1..k
      BY <2>4
    <3>3. \A j \in 1..k : \A l \in j + 1..k : l \in j + 1..k + 1
      OBVIOUS
    <3> QED BY <2>1, <3>1, <3>2, <3>3
  <2> QED BY <2>3, <2>4
<1> HIDE DEF S
<1>9. n \in S
  BY <1>2, <1>7, <1>8, Induction
<1>10. after[n] \in V /\ Decides(n)
  BY <1>2, <1>9 DEF S
<1> QED BY <1>1, <1>2, <1>10 DEF Leaves

\* What an update that visits a committee takes it to be: what an earlier visit wanted,
\* or what is there.
LEMMA HeldIs ==
  ASSUME NEW visits \in Seq(Visit), NEW i \in 1..Len(visits)
  PROVE  \/ \E j \in 1..i - 1 : visits[j].name = visits[i].name /\ Held(visits, i) = <<visits[j].row>>
         \/ /\ \A j \in 1..i - 1 : visits[j].name # visits[i].name
            /\ visits[i].name \in DOMAIN committees
            /\ Held(visits, i) = <<committees[visits[i].name]>>
         \/ /\ \A j \in 1..i - 1 : visits[j].name # visits[i].name
            /\ visits[i].name \notin DOMAIN committees
            /\ Held(visits, i) = <<>>
<1> DEFINE name == visits[i].name
           earlier == SubSeq(visits, 1, i - 1)
           before == FirstVisit(earlier, name)
<1>1. earlier \in Seq(Visit) /\ Len(earlier) = i - 1 /\ \A j \in 1..i - 1 : earlier[j] = visits[j]
  OBVIOUS
<1>2. Held(visits, i) = CASE before # 0 -> <<visits[before].row>>
                          [] before = 0 /\ name \in DOMAIN committees -> <<committees[name]>>
                          [] OTHER -> <<>>
  BY DEF Held
<1> HIDE DEF name, earlier
<1>3. IF \E j \in 1..Len(earlier) : earlier[j].name = name
      THEN before \in 1..Len(earlier) /\ earlier[before].name = name
      ELSE before = 0
  <2>1. earlier \in Seq(Visit)
    BY <1>1
  <2> QED BY <2>1, FirstIs
<1> HIDE DEF before
<1>4. IF \E j \in 1..i - 1 : visits[j].name = name
      THEN before \in 1..i - 1 /\ visits[before].name = name
      ELSE before = 0
  BY <1>1, <1>3
<1>5. CASE \E j \in 1..i - 1 : visits[j].name = name
  <2>1. before \in 1..i - 1 /\ visits[before].name = name /\ before # 0
    BY <1>4, <1>5
  <2>2. Held(visits, i) = <<visits[before].row>>
    BY <1>2, <2>1
  <2> QED BY <2>1, <2>2 DEF name
<1>6. CASE ~\E j \in 1..i - 1 : visits[j].name = name
  <2>1. before = 0
    BY <1>4, <1>6
  <2>2. Held(visits, i) = IF name \in DOMAIN committees THEN <<committees[name]>> ELSE <<>>
    BY <1>2, <2>1
  <2> QED BY <1>6, <2>2 DEF name
<1> QED BY <1>5, <1>6

\* The visits that are left.
LEMMA RestIs ==
  ASSUME NEW h \in Handlers, Typed(h), request[h].at = "write"
  PROVE  LET visits == Visits(request[h].versions)
             next == request[h].next
         IN  /\ visits \in Seq(Visit) /\ next \in 1..Len(visits)
             /\ Rest(h) \in Seq(Visit) /\ Len(Rest(h)) = Len(visits) - next + 1
             /\ \A i \in 1..Len(Rest(h)) : Rest(h)[i] = visits[next - 1 + i]
             /\ Head(Rest(h)) = visits[next]
<1> DEFINE versions == request[h].versions
           visits == Visits(versions)
           next == request[h].next
<1>1. versions \in Seq(DOMAIN Remote) /\ Len(versions) = 3 /\ next \in 1..Len(visits)
  BY DEF Typed
<1>2. Rest(h) = SubSeq(visits, next, Len(visits))
  BY DEF Rest
<1> HIDE DEF versions
<1>3. visits \in Seq(Visit)
  BY <1>1, VisitsAre
<1> HIDE DEF visits, next
<1>4. /\ Rest(h) \in Seq(Visit) /\ Len(Rest(h)) = Len(visits) - next + 1
      /\ \A i \in 1..Len(Rest(h)) : Rest(h)[i] = visits[next - 1 + i]
  BY <1>1, <1>2, <1>3
<1>5. Head(Rest(h)) = visits[next]
  <2>1. Head(Rest(h)) = Rest(h)[1] /\ 1 \in 1..Len(Rest(h)) /\ next - 1 + 1 = next
    BY <1>1, <1>3, <1>4
  <2> QED BY <1>4, <2>1
<1> QED BY <1>1, <1>3, <1>4, <1>5 DEF visits, next, versions

\* What an update writes for a committee that it visits.
LEMMA RowAfterIs ==
  ASSUME RowTypes, NEW h \in Handlers, request[h].at = "write",
         request[h].held = <<>> => Head(Rest(h)).name \notin DOMAIN committees,
         NEW i \in 1..Len(Rest(h))
  PROVE  LET rest == Rest(h)
             row == RowAfter(h, rest[i].name)
         IN  /\ row \in Committee
             /\ Seen(h) /\ ~request[h].mixed =>
                  ((\A l \in i + 1..Len(rest) : rest[l].name # rest[i].name) => row = rest[i].row)
<1> DEFINE rest == Rest(h)
           n == rest[i].name
           first == FirstVisit(rest, n)
           wanted == rest[first].row
           held == request[h].held[1]
<1>1. Typed(h)
  BY DEF RowTypes
<1>2. rest \in Seq(Visit) /\ i \in 1..Len(rest)
  BY <1>1, RestIs
<1>3. RowAfter(h, n) =
        CASE n \notin DOMAIN committees -> AfterVisits(rest, n, wanted, wanted)
          [] n \in DOMAIN committees /\ n = Head(rest).name -> AfterVisits(rest, n, held, committees[n])
          [] OTHER -> AfterVisits(rest, n, committees[n], committees[n])
  BY DEF RowAfter
<1>4. wanted \in Committee
  <2> HIDE DEF rest, n
  <2>1. \E j \in 1..Len(rest) : rest[j].name = n
    BY <1>2 DEF n
  <2>2. first \in 1..Len(rest)
    BY <1>2, <2>1, FirstIs
  <2> HIDE DEF first
  <2>3. rest[first] \in Visit
    BY <1>2, <2>2
  <2> QED BY <2>3 DEF Visit
<1>5. n \in DOMAIN committees => committees[n] \in Committee
  BY DEF RowTypes, TypeOK, Range
<1>6. n \in DOMAIN committees /\ n = Head(rest).name => held \in Committee
  <2> SUFFICES ASSUME n \in DOMAIN committees, n = Head(rest).name
               PROVE  held \in Committee
    OBVIOUS
  <2>1. request[h].held # <<>>
    OBVIOUS
  <2> QED BY <1>1, <2>1 DEF Typed
<1>7. n \in DOMAIN committees /\ n = Head(rest).name /\ Seen(h) /\ ~request[h].mixed => held = committees[n]
  <2> SUFFICES ASSUME n \in DOMAIN committees, n = Head(rest).name, Seen(h), ~request[h].mixed
               PROVE  held = committees[n]
    OBVIOUS
  <2>1. Head(rest) = Visits(request[h].versions)[request[h].next]
    BY <1>1, RestIs
  <2>2. request[h].held = <<committees[n]>>
    BY <2>1 DEF Seen
  <2> QED BY <2>2
<1> HIDE DEF rest, n, wanted, held
<1>8. ASSUME NEW had, NEW was \in Committee, had \in Committee, RowAfter(h, n) = AfterVisits(rest, n, had, was),
             Seen(h) /\ ~request[h].mixed => had = was
      PROVE  /\ RowAfter(h, n) \in Committee
             /\ Seen(h) /\ ~request[h].mixed =>
                  ((\A l \in i + 1..Len(rest) : rest[l].name # n) => RowAfter(h, n) = rest[i].row)
  <2>1. Leaves(AfterVisits(rest, n, had, was), rest, n, had, was)
    BY <1>2, <1>8, AfterIs
  <2> QED BY <1>2, <1>8, <2>1 DEF Leaves, n
<1>9. CASE n \notin DOMAIN committees
  <2>1. RowAfter(h, n) = AfterVisits(rest, n, wanted, wanted)
    BY <1>3, <1>9
  <2> QED BY <1>4, <1>8, <2>1 DEF rest, n
<1>10. CASE n \in DOMAIN committees /\ n = Head(rest).name
  <2>1. RowAfter(h, n) = AfterVisits(rest, n, held, committees[n])
    BY <1>3, <1>10
  <2> QED BY <1>5, <1>6, <1>7, <1>8, <1>10, <2>1 DEF rest, n
<1>11. CASE n \in DOMAIN committees /\ n # Head(rest).name
  <2>1. RowAfter(h, n) = AfterVisits(rest, n, committees[n], committees[n])
    BY <1>3, <1>11
  <2> QED BY <1>5, <1>8, <1>11, <2>1 DEF rest, n
<1> QED BY <1>9, <1>10, <1>11

\* What a handler has read stays of the right kind while no row it names goes.
LEMMA TypedOn ==
  ASSUME NEW h \in Handlers, Typed(h), request'[h] = request[h],
         DOMAIN committees \subseteq DOMAIN committees', DOMAIN projects \subseteq DOMAIN projects'
  PROVE  Typed(h)'
BY DEF Typed

\* A step of handler h that leaves the committees' and projects' rows, or adds to them.
LEMMA TypedStep ==
  ASSUME RowTypes, NEW h \in Handlers, NEW r, Does(h, r), Typed(h)',
         DOMAIN committees \subseteq DOMAIN committees', DOMAIN projects \subseteq DOMAIN projects'
  PROVE  \A g \in Handlers : Typed(g)' /\ request'[g].at \in Places
<1> SUFFICES ASSUME NEW g \in Handlers
             PROVE  Typed(g)' /\ request'[g].at \in Places
  OBVIOUS
<1>1. Typed(g)'
  <2>1. CASE g = h
    BY <2>1
  <2>2. CASE g # h
    <3>1. request'[g] = request[g] /\ Typed(g)
      BY <2>2, DoesOne DEF RowTypes, RowsInv
    <3> QED BY <3>1, TypedOn
  <2> QED BY <2>1, <2>2
<1> QED BY <1>1 DEF Typed

\* A handler that is done has read nothing that it will use.
LEMMA IdleTyped ==
  ASSUME NEW h \in Handlers, request'[h].at = "idle"
  PROVE  Typed(h)'
BY DEF Typed, Places

\* A step of handler h that changes no row.
LEMMA ReadingTyped ==
  ASSUME RowTypes, RowsInv', NEW h \in Handlers, NEW r, Does(h, r), Typed(h)', UNCHANGED <<rows, published>>
  PROVE  RowTypes'
<1>1. \A g \in Handlers : Typed(g)' /\ request'[g].at \in Places
  BY TypedStep DEF rows
<1> QED BY <1>1 DEF RowTypes, TypeOK, rows

LEMMA ReadsTyped ==
  ASSUME RowTypes, RowsInv', NEW h \in Handlers,
         AddKey(h) \/ DeleteKey(h) \/ DeleteAllKeys(h) \/ ReadLinks(h) \/ CreateCandidate(h)
           \/ StartUpdate(h) \/ Fetch(h) \/ Fail(h)
  PROVE  RowTypes'
<1>1. ASSUME NEW r, Does(h, r), UNCHANGED <<rows, published>>, r.at \in {"idle", "delete", "links"}
      PROVE  RowTypes'
  <2>1. request'[h] = r
    BY <1>1, DoesOne DEF RowTypes, RowsInv
  <2>2. Typed(h)'
    BY <1>1, <2>1 DEF Typed, Places
  <2> QED BY <1>1, <2>2, ReadingTyped
<1>2. CASE AddKey(h)
  <2>1. PICK u \in Users, f \in Fingerprints : \E selected \in SUBSET SessionOf[u] :
          Does(h, [at |-> "add", user |-> u, key |-> f, selected |-> selected])
    BY <1>2 DEF AddKey
  <2>2. PICK selected : request'[h] = [at |-> "add", user |-> u, key |-> f, selected |-> selected]
    BY <2>1, DoesOne DEF RowTypes, RowsInv
  <2>3. Typed(h)'
    BY <2>2 DEF Typed, Places
  <2> QED BY <1>2, <2>1, <2>3, ReadingTyped DEF AddKey
<1>3. CASE DeleteKey(h) \/ DeleteAllKeys(h)
  <2>1. PICK u, found : Reads(h, u, found)
    BY <1>3 DEF DeleteKey, DeleteAllKeys
  <2> DEFINE r == [at |-> "delete", user |-> u, read |-> [f \in found |-> keys[f]]]
  <2>2. Does(h, r) /\ UNCHANGED <<rows, published>>
    BY <2>1 DEF Reads
  <2>3. r.at = "delete"
    OBVIOUS
  <2> HIDE DEF r
  <2> QED BY <1>1, <2>2, <2>3
<1>4. CASE ReadLinks(h)
  <2> DEFINE r == [at |-> "links", user |-> request[h].user, read |-> request[h].read,
                   links |-> {l \in links : l[2] \in DOMAIN request[h].read}]
  <2>1. Does(h, r) /\ UNCHANGED <<rows, published>> /\ r.at = "links"
    BY <1>4 DEF ReadLinks
  <2> HIDE DEF r
  <2> QED BY <1>1, <2>1
<1>5. CASE CreateCandidate(h)
  <2>1. PICK p \in Names, c \in DOMAIN committees :
          Does(h, [at |-> "create", committee |-> c, project |-> p, found |-> p \in DOMAIN projects])
    BY <1>5 DEF CreateCandidate
  <2> DEFINE r == [at |-> "create", committee |-> c, project |-> p, found |-> p \in DOMAIN projects]
  <2>2. request'[h] = r /\ UNCHANGED <<committees, projects>>
    BY <1>5, <2>1, DoesOne DEF RowTypes, RowsInv, CreateCandidate, rows
  <2>3. r.at = "create" /\ r.committee = c /\ r.project = p /\ (r.found <=> p \in DOMAIN projects)
    OBVIOUS
  <2> HIDE DEF r
  <2>4. Typed(h)'
    BY <2>2, <2>3 DEF Typed, Places
  <2> QED BY <1>5, <2>1, <2>4, ReadingTyped DEF CreateCandidate
<1>6. CASE StartUpdate(h)
  <2> DEFINE r == [at |-> "fetch", versions |-> <<>>, next |-> 1, mixed |-> FALSE]
  <2>1. Does(h, r)
    BY <1>6 DEF StartUpdate
  <2>2. request'[h] = r
    BY <2>1, DoesOne DEF RowTypes, RowsInv
  <2>3. Typed(h)'
    BY <2>2 DEF Typed, Places
  <2> QED BY <1>6, <2>1, <2>3, ReadingTyped DEF StartUpdate
<1>7. CASE Fetch(h)
  <2> DEFINE versions == Append(request[h].versions, published)
             r == [at |-> IF Len(versions) = 3 THEN "look" ELSE "fetch", versions |-> versions,
                   next |-> 1, mixed |-> FALSE]
  <2>1. Does(h, r) /\ request[h].at = "fetch"
    BY <1>7 DEF Fetch
  <2>2. request'[h] = r
    BY <2>1, DoesOne DEF RowTypes, RowsInv
  <2>3. versions \in Seq(DOMAIN Remote) /\ Len(versions) \in Nat /\ Len(versions) <= 3
    BY <2>1 DEF RowTypes, TypeOK, Typed
  <2> HIDE DEF versions
  <2>4. CASE Len(versions) = 3
    <3>1. r = [at |-> "look", versions |-> versions, next |-> 1, mixed |-> FALSE]
      BY <2>4
    <3>2. 1 \in 1..Len(Visits(versions))
      BY <2>3, <2>4, VisitsAre
    <3> HIDE DEF r
    <3>3. Typed(h)'
      BY <2>2, <2>3, <2>4, <3>1, <3>2 DEF Typed, Places
    <3> QED BY <1>7, <2>1, <3>3, ReadingTyped DEF Fetch
  <2>5. CASE Len(versions) # 3
    <3>1. r = [at |-> "fetch", versions |-> versions, next |-> 1, mixed |-> FALSE]
      BY <2>5
    <3>2. Len(versions) < 3
      <4> DEFINE n == Len(versions)
      <4>1. n \in Nat /\ n <= 3 /\ n # 3
        BY <2>3, <2>5
      <4> HIDE DEF n
      <4>2. n < 3
        BY <4>1
      <4> QED BY <4>2 DEF n
    <3> HIDE DEF r
    <3>3. Typed(h)'
      BY <2>2, <2>3, <3>1, <3>2 DEF Typed, Places
    <3> QED BY <1>7, <2>1, <3>3, ReadingTyped DEF Fetch
  <2> QED BY <2>4, <2>5
<1>8. CASE Fail(h)
  BY <1>1, <1>8 DEF Fail, Ends, Idle
<1> QED BY <1>2, <1>3, <1>4, <1>5, <1>6, <1>7, <1>8

\* The end of an update, as the others see it.
LEMMA UpdatedTyped ==
  ASSUME RowTypes, NEW h \in Handlers, Updated(h),
         DOMAIN committees \subseteq DOMAIN committees', DOMAIN projects \subseteq DOMAIN projects'
  PROVE  \A g \in Handlers : Typed(g)' /\ request'[g].at \in Places
<1> SUFFICES ASSUME NEW g \in Handlers
             PROVE  Typed(g)' /\ request'[g].at \in Places
  OBVIOUS
<1>1. Typed(g)'
  <2>1. CASE g = h
    <3>1. request'[g].at = "idle"
      BY <2>1 DEF Updated, Idle
    <3> QED BY <3>1, IdleTyped
  <2>2. CASE g # h /\ request[g].at \in {"look", "write"}
    <3>1. request'[g] = [request[g] EXCEPT !.mixed = TRUE]
      BY <2>2 DEF Updated
    <3>2. /\ request'[g].at = request[g].at /\ request'[g].versions = request[g].versions
          /\ request'[g].next = request[g].next
          /\ request[g].at = "write" => request'[g].held = request[g].held
          /\ DOMAIN request'[g] = DOMAIN request[g]
      BY <3>1
    <3>3. Typed(g)
      BY DEF RowTypes
    <3> QED BY <2>2, <3>2, <3>3 DEF Typed
  <2>3. CASE g # h /\ request[g].at \notin {"look", "write"}
    <3>1. request'[g] = request[g] /\ Typed(g)
      BY <2>3 DEF Updated, RowTypes
    <3> QED BY <3>1, TypedOn
  <2> QED BY <2>1, <2>2, <2>3
<1> QED BY <1>1 DEF Typed

LEMMA LookTyped ==
  ASSUME RowTypes, RowsInv', NEW h \in Handlers, Look(h)
  PROVE  RowTypes'
<1> DEFINE visits == Visits(request[h].versions)
           i == request[h].next
           held == Held(visits, i)
           w == [at |-> "write", versions |-> request[h].versions, next |-> i,
                 mixed |-> request[h].mixed, held |-> held]
           r == [request[h] EXCEPT !.next = @ + 1]
<1>1. /\ request[h].at = "look" /\ UNCHANGED <<rows, published>>
      /\ \/ Does(h, w)
         \/ i < Len(visits) /\ Does(h, r)
         \/ Updated(h)
  BY Zenon DEF Look
<1>2. /\ request[h].versions \in Seq(DOMAIN Remote) /\ Len(request[h].versions) = 3
      /\ i \in 1..Len(visits)
  BY <1>1 DEF RowTypes, Typed
<1>3. visits \in Seq(Visit)
  BY <1>2, VisitsAre
<1>4. CASE Updated(h)
  <2>1. \A g \in Handlers : Typed(g)' /\ request'[g].at \in Places
    BY <1>1, <1>4, UpdatedTyped DEF rows
  <2> QED BY <1>1, <2>1 DEF RowTypes, TypeOK, rows
<1>5. CASE Does(h, w)
  <2>1. held = <<>> \/ \E row \in Committee : held = <<row>>
    <3>1. \A j \in 1..Len(visits) : visits[j].row \in Committee
      <4> HIDE DEF visits
      <4>1. \A j \in 1..Len(visits) : visits[j] \in Visit
        BY <1>3
      <4> QED BY <4>1 DEF Visit
    <3>2. visits[i].name \in DOMAIN committees => committees[visits[i].name] \in Committee
      BY DEF RowTypes, TypeOK, Range
    <3> HIDE DEF visits, i
    <3>3. \A j \in 1..i - 1 : j \in 1..Len(visits)
      BY <1>2
    <3> QED BY <1>2, <1>3, <3>1, <3>2, <3>3, HeldIs
  <2>2. request'[h] = w
    BY <1>5, DoesOne DEF RowTypes, RowsInv
  <2> HIDE DEF held
  <2>3. /\ w.at = "write" /\ w.versions = request[h].versions /\ w.next = i /\ w.held = held
        /\ {"next", "mixed"} \subseteq DOMAIN w
    OBVIOUS
  <2> HIDE DEF w
  <2>4. Typed(h)'
    BY <1>2, <2>1, <2>2, <2>3 DEF Typed, Places
  <2> QED BY <1>1, <1>5, <2>4, ReadingTyped
<1>6. CASE i < Len(visits) /\ Does(h, r)
  <2>1. request'[h] = r
    BY <1>6, DoesOne DEF RowTypes, RowsInv
  <2>2. /\ r.at = "look" /\ r.versions = request[h].versions /\ r.next = i + 1
        /\ {"next", "mixed"} \subseteq DOMAIN r
    BY <1>1 DEF RowTypes, Typed
  <2>3. i + 1 \in 1..Len(visits)
    BY <1>2, <1>3, <1>6
  <2> HIDE DEF r
  <2>4. Typed(h)'
    BY <1>2, <2>1, <2>2, <2>3 DEF Typed, Places
  <2> QED BY <1>1, <1>6, <2>4, ReadingTyped
<1> QED BY <1>1, <1>4, <1>5, <1>6

LEMMA InsertKeyTyped ==
  ASSUME RowTypes, RowsInv', NEW h \in Handlers, InsertKey(h)
  PROVE  RowTypes'
<1> DEFINE f == request[h].key
           row == [owner |-> request[h].user, added |-> added + 1]
           one == [k \in {f} |-> row]
           new == {<<c, f>> : c \in request[h].selected \cap DOMAIN committees}
           Key == [owner : Users, added : 1..MaxAdds]
<1>1. /\ request[h].at = "add" /\ added < MaxAdds
      /\ keys' = Over(keys, one) /\ links' = links \cup new
      /\ added' = added + 1 /\ Ends(h)
      /\ UNCHANGED <<committees, projects, releases, stray, published>>
  BY DEF InsertKey
<1>2. f \in Fingerprints /\ row \in Key /\ added + 1 \in 0..MaxAdds
  <2>1. Typed(h) /\ added \in 0..MaxAdds
    BY DEF RowTypes, TypeOK
  <2> QED BY <1>1, <2>1, NumberBounds DEF Typed
<1>3. DOMAIN keys' \subseteq Fingerprints /\ Range(keys') \subseteq Key
  <2>1. DOMAIN one = {f} /\ one[f] = row
    OBVIOUS
  <2> HIDE DEF one, row, f
  <2>2. DOMAIN keys \subseteq Fingerprints /\ \A k \in DOMAIN keys : keys[k] \in Key
    <3>1. DOMAIN keys \subseteq Fingerprints /\ Range(keys) \subseteq Key
      BY DEF RowTypes, TypeOK
    <3> HIDE DEF Key
    <3> QED BY <3>1 DEF Range
  <2> HIDE DEF Key
  <2>3. /\ DOMAIN keys' = DOMAIN keys \cup DOMAIN one
        /\ \A k \in DOMAIN keys : keys'[k] = keys[k]
        /\ \A k \in DOMAIN one \ DOMAIN keys : keys'[k] = one[k]
    BY <1>1 DEF Over
  <2> QED BY <1>2, <2>1, <2>2, <2>3 DEF Range
<1>4. new \subseteq Names \X Fingerprints
  BY <1>2 DEF RowTypes, TypeOK
<1>5. Does(h, Idle)
  BY <1>1 DEF Ends
<1>6. Typed(h)'
  BY <1>5, DoesOne, IdleTyped DEF RowTypes, RowsInv, Idle
<1>7. \A g \in Handlers : Typed(g)' /\ request'[g].at \in Places
  BY <1>1, <1>5, <1>6, TypedStep
<1> HIDE DEF f, row, one, new
<1> QED BY <1>1, <1>2, <1>3, <1>4, <1>7 DEF RowTypes, TypeOK

LEMMA CommitDeleteTyped ==
  ASSUME RowTypes, RowsInv', NEW h \in Handlers, CommitDelete(h)
  PROVE  RowTypes'
<1> DEFINE read == request[h].read
           deleted == DOMAIN read \cap DOMAIN keys
           Key == [owner : Users, added : 1..MaxAdds]
<1>1. /\ keys' = [f \in DOMAIN keys \ deleted |-> keys[f]]
      /\ links' = links \ request[h].links /\ Ends(h) /\ stray' \subseteq links'
      /\ UNCHANGED <<committees, projects, releases, added, published>>
  BY DEF CommitDelete, Unlinked
<1>2. DOMAIN keys' \subseteq Fingerprints /\ Range(keys') \subseteq Key
  <2>1. DOMAIN keys \subseteq Fingerprints /\ \A k \in DOMAIN keys : keys[k] \in Key
    BY DEF RowTypes, TypeOK, Range
  <2> HIDE DEF Key
  <2> QED BY <1>1, <2>1 DEF Range
<1>3. stray' \subseteq links' /\ links' \subseteq Names \X Fingerprints
  BY <1>1 DEF RowTypes, TypeOK
<1>4. Does(h, Idle)
  BY <1>1 DEF Ends
<1>5. Typed(h)'
  BY <1>4, DoesOne, IdleTyped DEF RowTypes, RowsInv, Idle
<1>6. \A g \in Handlers : Typed(g)' /\ request'[g].at \in Places
  BY <1>1, <1>4, <1>5, TypedStep
<1> QED BY <1>1, <1>2, <1>3, <1>6 DEF RowTypes, TypeOK

LEMMA InsertReleaseTyped ==
  ASSUME RowTypes, RowsInv', NEW h \in Handlers, InsertRelease(h)
  PROVE  RowTypes'
<1> DEFINE p == request[h].project
           c == request[h].committee
           one == [k \in {p} |-> c]
<1>1. /\ request[h].at = "create"
      /\ request[h].found \/ p \notin DOMAIN projects
      /\ projects' = Over(projects, one)
      /\ releases' = Append(releases, p) /\ Ends(h)
      /\ UNCHANGED <<committees, keys, links, added, stray, published>>
  BY DEF InsertRelease
<1>2. c \in DOMAIN committees /\ p \in Names
  BY <1>1 DEF RowTypes, Typed
<1>3. DOMAIN one = {p} /\ one[p] = c
  OBVIOUS
<1> HIDE DEF p, c, one
<1>4. /\ DOMAIN projects' = DOMAIN projects \cup {p}
      /\ \A k \in DOMAIN projects : projects'[k] = projects[k]
      /\ \A k \in {p} \ DOMAIN projects : projects'[k] = c
  <2>1. /\ DOMAIN projects' = DOMAIN projects \cup DOMAIN one
        /\ \A k \in DOMAIN projects : projects'[k] = projects[k]
        /\ \A k \in DOMAIN one \ DOMAIN projects : projects'[k] = one[k]
    BY <1>1 DEF Over
  <2> QED BY <1>3, <2>1
<1>5. DOMAIN projects \subseteq Names /\ Range(projects) \subseteq DOMAIN committees /\ releases \in Seq(DOMAIN projects)
  BY DEF RowTypes, TypeOK
<1>6. DOMAIN projects' \subseteq Names /\ Range(projects') \subseteq DOMAIN committees'
  BY <1>1, <1>2, <1>4, <1>5 DEF Range
<1>7. releases' \in Seq(DOMAIN projects')
  <2> DEFINE D == DOMAIN projects'
  <2>1. p \in D /\ DOMAIN projects \subseteq D
    BY <1>4
  <2> HIDE DEF D
  <2>2. releases \in Seq(D)
    BY <1>5, <2>1
  <2> QED BY <1>1, <2>1, <2>2 DEF D
<1>8. Does(h, Idle)
  BY <1>1 DEF Ends
<1>9. Typed(h)'
  BY <1>8, DoesOne, IdleTyped DEF RowTypes, RowsInv, Idle
<1>10. \A g \in Handlers : Typed(g)' /\ request'[g].at \in Places
  BY <1>1, <1>4, <1>8, <1>9, TypedStep
<1> QED BY <1>1, <1>6, <1>7, <1>10 DEF RowTypes, TypeOK

\* The rows that an update writes.
Writes(h, names, new) ==
  /\ names \subseteq Names
  /\ DOMAIN committees' = DOMAIN committees \cup names
  /\ \A n \in names : committees'[n] = RowAfter(h, n) /\ RowAfter(h, n) \in Committee
  /\ \A n \in DOMAIN committees \ names : committees'[n] = committees[n]
  /\ DOMAIN projects' = DOMAIN projects \cup new
  /\ \A n \in new : projects'[n] = n
  /\ \A n \in DOMAIN projects \ new : projects'[n] = projects[n]

LEMMA CommitUpdateRows ==
  ASSUME RowTypes, NEW h \in Handlers, CommitUpdate(h)
  PROVE  Writes(h, Visited(h), Visited(h) \ DOMAIN committees)
<1> DEFINE names == Visited(h)
           new == names \ DOMAIN committees
           written == [n \in names |-> RowAfter(h, n)]
           cores == [n \in new |-> CoreProject(n)]
<1>1. /\ request[h].at = "write"
      /\ request[h].held = <<>> => Head(Rest(h)).name \in new
      /\ committees' = Over(written, committees)
      /\ projects' = Over(cores, projects)
  BY DEF CommitUpdate, Visited
<1>2. DOMAIN written = names /\ \A n \in names : written[n] = RowAfter(h, n)
  OBVIOUS
<1>3. DOMAIN cores = new /\ \A n \in new : cores[n] = n
  BY DEF CoreProject
<1>4. \A n \in names : \E i \in 1..Len(Rest(h)) : n = Rest(h)[i].name /\ Rest(h)[i] \in Visit
  <2> DEFINE rest == Rest(h)
  <2>1. rest \in Seq(Visit)
    BY <1>1, RestIs DEF RowTypes
  <2> HIDE DEF rest
  <2>2. ASSUME NEW v \in Range(rest)
        PROVE  \E i \in 1..Len(rest) : v = rest[i] /\ rest[i] \in Visit
    BY <2>1 DEF Range
  <2> QED BY <2>2 DEF rest, Visited
<1>5. request[h].held = <<>> => Head(Rest(h)).name \notin DOMAIN committees
  BY <1>1
<1>6. \A n \in names : RowAfter(h, n) \in Committee
  BY <1>1, <1>4, <1>5, RowAfterIs
<1>7. names \subseteq Names
  BY <1>4 DEF Visit
<1> HIDE DEF names, new, written, cores
<1>8. /\ DOMAIN committees' = DOMAIN committees \cup names
      /\ \A n \in names : committees'[n] = RowAfter(h, n)
      /\ \A n \in DOMAIN committees \ names : committees'[n] = committees[n]
  <2>1. /\ DOMAIN committees' = DOMAIN written \cup DOMAIN committees
        /\ \A n \in DOMAIN written : committees'[n] = written[n]
        /\ \A n \in DOMAIN committees \ DOMAIN written : committees'[n] = committees[n]
    BY <1>1 DEF Over
  <2> QED BY <1>2, <2>1
<1>9. /\ DOMAIN projects' = DOMAIN projects \cup new
      /\ \A n \in new : projects'[n] = n
      /\ \A n \in DOMAIN projects \ new : projects'[n] = projects[n]
  <2>1. /\ DOMAIN projects' = DOMAIN cores \cup DOMAIN projects
        /\ \A n \in DOMAIN cores : projects'[n] = cores[n]
        /\ \A n \in DOMAIN projects \ DOMAIN cores : projects'[n] = projects[n]
    BY <1>1 DEF Over
  <2> QED BY <1>3, <2>1
<1>10. Writes(h, names, new)
  BY <1>6, <1>7, <1>8, <1>9 DEF Writes
<1> QED BY <1>10 DEF names, new

LEMMA CommitUpdateTyped ==
  ASSUME RowTypes, RowsInv', NEW h \in Handlers, CommitUpdate(h)
  PROVE  RowTypes'
<1> DEFINE names == Visited(h)
           new == names \ DOMAIN committees
<1>1. Updated(h) /\ UNCHANGED <<releases, keys, links, added, stray, published>>
  BY DEF CommitUpdate
<1>2. Writes(h, names, new)
  BY CommitUpdateRows
<1>3. new \subseteq names
  OBVIOUS
<1> HIDE DEF names, new
<1>4. /\ DOMAIN committees \subseteq Names /\ Range(committees) \subseteq Committee
      /\ DOMAIN projects \subseteq Names /\ Range(projects) \subseteq DOMAIN committees
      /\ releases \in Seq(DOMAIN projects)
  BY DEF RowTypes, TypeOK
<1>5. /\ DOMAIN committees' \subseteq Names /\ Range(committees') \subseteq Committee
      /\ DOMAIN projects' \subseteq Names /\ Range(projects') \subseteq DOMAIN committees'
  BY <1>2, <1>3, <1>4 DEF Range, Writes
<1>6. releases' \in Seq(DOMAIN projects')
  <2> DEFINE D == DOMAIN projects'
  <2>1. DOMAIN projects \subseteq D
    BY <1>2 DEF Writes
  <2> HIDE DEF D
  <2> QED BY <1>1, <1>4, <2>1 DEF D
<1>7. \A g \in Handlers : Typed(g)' /\ request'[g].at \in Places
  BY <1>1, <1>2, UpdatedTyped DEF Writes
<1> QED BY <1>1, <1>5, <1>6, <1>7 DEF RowTypes, TypeOK

LEMMA PublishTyped ==
  ASSUME RowTypes, RowsInv', Publish
  PROVE  RowTypes'
<1>1. UNCHANGED <<rows, request>> /\ published' = published + 1 /\ published < Len(Remote)
  BY DEF Publish
<1>2. published' \in DOMAIN Remote
  <2>1. DOMAIN Remote = 1..Len(Remote) /\ Len(Remote) \in Nat
    BY RemoteLists
  <2>2. published \in DOMAIN Remote
    BY DEF RowTypes, TypeOK
  <2> QED BY <1>1, <2>1, <2>2
<1>3. \A g \in Handlers : Typed(g)'
  BY <1>1, TypedOn DEF RowTypes, rows
<1> QED BY <1>1, <1>2, <1>3 DEF RowTypes, TypeOK, rows

LEMMA InitTyped == Init => RowTypes
<1> SUFFICES ASSUME Init
             PROVE  RowTypes
  OBVIOUS
<1>1. RowsInv
  BY InitRows
<1>2. \A h \in Handlers : request[h].at = "idle"
  BY DEF Init, Idle
<1>3. \A h \in Handlers : Typed(h) /\ request[h].at \in Places
  BY <1>2 DEF Typed, Places
<1>4. published \in DOMAIN Remote
  BY RemoteLists DEF Init
<1>5. TypeOK
  BY <1>3, <1>4, NumberBounds DEF Init, TypeOK, Range
<1> QED BY <1>1, <1>3, <1>5 DEF RowTypes

LEMMA StepKeepsTypes == RowTypes /\ [Next]_vars => RowTypes'
<1> SUFFICES ASSUME RowTypes, [Next]_vars
             PROVE  RowTypes'
  OBVIOUS
<1>1. RowsInv'
  BY StepKeepsRows DEF RowTypes
<1>2. CASE UNCHANGED vars
  <2>1. \A g \in Handlers : Typed(g)'
    BY <1>2, TypedOn DEF RowTypes, rows, vars
  <2> QED BY <1>1, <1>2, <2>1 DEF RowTypes, TypeOK, rows, vars
<1>3. CASE Publish
  BY <1>1, <1>3, PublishTyped
<1>4. ASSUME NEW h \in Handlers, Handle(h)
      PROVE  RowTypes'
  <2>1. CASE AddKey(h) \/ DeleteKey(h) \/ DeleteAllKeys(h) \/ ReadLinks(h) \/ CreateCandidate(h)
             \/ StartUpdate(h) \/ Fetch(h) \/ Fail(h)
    BY <1>1, <2>1, ReadsTyped
  <2>2. CASE InsertKey(h)
    BY <1>1, <2>2, InsertKeyTyped
  <2>3. CASE CommitDelete(h)
    BY <1>1, <2>3, CommitDeleteTyped
  <2>4. CASE InsertRelease(h)
    BY <1>1, <2>4, InsertReleaseTyped
  <2>5. CASE Look(h)
    BY <1>1, <2>5, LookTyped
  <2>6. CASE CommitUpdate(h)
    BY <1>1, <2>6, CommitUpdateTyped
  <2> QED BY <1>4, <2>1, <2>2, <2>3, <2>4, <2>5, <2>6 DEF Handle
<1> QED BY <1>2, <1>3, <1>4 DEF Next

\* Whatever the handlers do and in whichever order, the tables keep their types: each
\* project belongs to a committee that is there and each release to a project that is.
THEOREM TypeCorrect == Spec => []TypeOK
<1>1. RowTypes => TypeOK
  BY DEF RowTypes
<1> QED BY InitTyped, StepKeepsTypes, <1>1, PTL DEF Spec

\* What an update knows of the committees stays true while they stay.
LEMMA SeenOn ==
  ASSUME NEW h \in Handlers, Seen(h), request'[h] = request[h], UNCHANGED committees
  PROVE  Seen(h)'
BY DEF Seen

\* A handler that does not visit committees.
LEMMA UnseenSeen ==
  ASSUME NEW h \in Handlers, request'[h].at \notin {"look", "write"}
  PROVE  Seen(h)'
BY DEF Seen

\* A step of handler h that changes no committee and ends no update.
LEMMA SeenStep ==
  ASSUME UpdateInv, RowTypes', NEW h \in Handlers, NEW r, Does(h, r), Seen(h)', UNCHANGED <<committees, latest>>
  PROVE  UpdateInv'
<1>1. ASSUME NEW g \in Handlers
      PROVE  Seen(g)'
  <2>1. CASE g = h
    BY <2>1
  <2>2. CASE g # h
    <3>1. request'[g] = request[g] /\ Seen(g)
      BY <2>2, DoesOne DEF UpdateInv, RowTypes, RowsInv
    <3> QED BY <3>1, SeenOn
  <2> QED BY <2>1, <2>2
<1>2. UpdateIsWhole'
  BY DEF UpdateInv, UpdateIsWhole
<1> QED BY <1>1, <1>2 DEF UpdateInv

\* An update that ends has had all others beside it.
LEMMA UpdatedSeen ==
  ASSUME UpdateInv, NEW h \in Handlers, Updated(h)
  PROVE  \A g \in Handlers : Seen(g)'
<1> SUFFICES ASSUME NEW g \in Handlers
             PROVE  Seen(g)'
  OBVIOUS
<1>1. CASE g = h
  <2>1. request'[g].at = "idle"
    BY <1>1 DEF Updated, Idle
  <2> QED BY <2>1, UnseenSeen
<1>2. CASE g # h /\ request[g].at \in {"look", "write"}
  <2>1. request'[g] = [request[g] EXCEPT !.mixed = TRUE]
    BY <1>2 DEF Updated
  <2>2. "mixed" \in DOMAIN request[g]
    BY <1>2 DEF UpdateInv, RowTypes, Typed
  <2>3. request'[g].mixed
    BY <2>1, <2>2
  <2> QED BY <2>3 DEF Seen
<1>3. CASE g # h /\ request[g].at \notin {"look", "write"}
  <2>1. request'[g] = request[g]
    BY <1>3 DEF Updated
  <2> QED BY <1>3, <2>1, UnseenSeen
<1> QED BY <1>1, <1>2, <1>3

LEMMA CommitUpdateIsWhole ==
  ASSUME UpdateInv, RowTypes', NEW h \in Handlers, CommitUpdate(h)
  PROVE  UpdateInv'
<1> DEFINE versions == request[h].versions
           visits == Visits(versions)
           next == request[h].next
           rest == Rest(h)
           names == Visited(h)
<1>1. /\ request[h].at = "write" /\ Updated(h)
      /\ request[h].held = <<>> => Head(Rest(h)).name \notin DOMAIN committees
  BY DEF CommitUpdate
<1>2. Typed(h) /\ Seen(h) /\ RowTypes
  BY DEF UpdateInv, RowTypes
<1>3. /\ visits \in Seq(Visit) /\ next \in 1..Len(visits)
      /\ rest \in Seq(Visit) /\ Len(rest) = Len(visits) - next + 1
      /\ \A i \in 1..Len(rest) : rest[i] = visits[next - 1 + i]
  BY <1>1, <1>2, RestIs
<1>4. Writes(h, names, names \ DOMAIN committees)
  BY <1>2, CommitUpdateRows
<1>5. names = {rest[i].name : i \in 1..Len(rest)}
  <2> HIDE DEF rest
  <2>1. Range(rest) = {rest[i] : i \in 1..Len(rest)}
    BY <1>3 DEF Range
  <2> QED BY <2>1 DEF Visited, rest
<1>6. latest'.versions = versions /\ (latest'.mixed <=> request[h].mixed)
  BY <1>1 DEF Updated
<1>7. UpdateIsWhole'
  <2> SUFFICES ASSUME ~request[h].mixed, NEW i \in DOMAIN visits,
                      \A j \in i + 1..Len(visits) : visits[j].name # visits[i].name
               PROVE  visits[i].name \in DOMAIN committees' /\ committees'[visits[i].name] = visits[i].row
    BY <1>6 DEF UpdateIsWhole
  <2>1. i \in 1..Len(visits)
    BY <1>3
  <2>2. CASE i < next
    <3>1. i \in 1..next - 1
      BY <1>3, <2>1, <2>2
    <3>2. visits[i].name \in DOMAIN committees /\ committees[visits[i].name] = visits[i].row
      BY <1>1, <1>2, <3>1 DEF Seen
    <3>3. visits[i].name \notin names
      <4> SUFFICES ASSUME NEW k \in 1..Len(rest)
                   PROVE  rest[k].name # visits[i].name
        BY <1>5
      <4>1. rest[k] = visits[next - 1 + k] /\ next - 1 + k \in i + 1..Len(visits)
        BY <1>3, <2>1, <2>2
      <4> QED BY <4>1
    <3> HIDE DEF names, visits
    <3> QED BY <1>4, <3>2, <3>3 DEF Writes
  <2>3. CASE i >= next
    <3>1. PICK k \in 1..Len(rest) : next - 1 + k = i
      <4> DEFINE k == i - next + 1
      <4> HIDE DEF rest, visits, next
      <4>1. k \in 1..Len(rest) /\ next - 1 + k = i
        BY <1>3, <2>1, <2>3
      <4> QED BY <4>1
    <3>2. rest[k] = visits[i]
      BY <1>3, <3>1
    <3>3. \A l \in k + 1..Len(rest) : rest[l].name # rest[k].name
      <4> SUFFICES ASSUME NEW l \in k + 1..Len(rest)
                   PROVE  rest[l].name # rest[k].name
        OBVIOUS
      <4>1. l \in 1..Len(rest) /\ next - 1 + l \in i + 1..Len(visits)
        <5> HIDE DEF rest, visits, next
        <5> QED BY <1>3, <2>1, <3>1
      <4>2. rest[l] = visits[next - 1 + l]
        BY <1>3, <4>1
      <4> QED BY <3>2, <4>1, <4>2
    <3>4. RowAfter(h, rest[k].name) = rest[k].row
      BY <1>1, <1>2, <3>1, <3>3, RowAfterIs
    <3>5. rest[k].name \in names
      BY <1>5, <3>1
    <3> HIDE DEF names, visits, rest
    <3> QED BY <1>4, <3>2, <3>4, <3>5 DEF Writes
  <2> QED BY <1>3, <2>1, <2>2, <2>3
<1> QED BY <1>1, <1>7, UpdatedSeen DEF UpdateInv

LEMMA LookIsWhole ==
  ASSUME UpdateInv, RowTypes', NEW h \in Handlers, Look(h)
  PROVE  UpdateInv'
<1> DEFINE versions == request[h].versions
           visits == Visits(versions)
           i == request[h].next
           held == Held(visits, i)
           w == [at |-> "write", versions |-> versions, next |-> i,
                 mixed |-> request[h].mixed, held |-> held]
           r == [request[h] EXCEPT !.next = @ + 1]
<1>1. /\ request[h].at = "look" /\ UNCHANGED committees
      /\ \/ Does(h, w) /\ UNCHANGED latest
         \/ held = <<visits[i].row>> /\ i < Len(visits) /\ Does(h, r) /\ UNCHANGED latest
         \/ held = <<visits[i].row>> /\ ~(i < Len(visits)) /\ Updated(h)
  <2>1. UNCHANGED committees /\ request[h].at = "look"
    BY DEF Look, rows
  <2> HIDE DEF w, r
  <2> QED BY <2>1, Zenon DEF Look, w, r
<1>2. versions \in Seq(DOMAIN Remote) /\ Len(versions) = 3 /\ i \in 1..Len(visits)
  BY <1>1 DEF UpdateInv, RowTypes, Typed
<1>3. visits \in Seq(Visit)
  BY <1>2, VisitsAre
<1>4. Seen(h) /\ RowTypes
  BY DEF UpdateInv
<1> HIDE DEF versions
<1>5. ~request[h].mixed =>
        \A j \in 1..i - 1 : visits[j].name \in DOMAIN committees /\ committees[visits[j].name] = visits[j].row
  BY <1>1, <1>4 DEF Seen, versions
<1>6. ~request[h].mixed =>
        IF visits[i].name \in DOMAIN committees THEN held = <<committees[visits[i].name]>> ELSE held = <<>>
  <2> HIDE DEF visits, i
  <2>1. \/ \E j \in 1..i - 1 : visits[j].name = visits[i].name /\ held = <<visits[j].row>>
        \/ visits[i].name \in DOMAIN committees /\ held = <<committees[visits[i].name]>>
        \/ visits[i].name \notin DOMAIN committees /\ held = <<>>
    BY <1>2, <1>3, HeldIs
  <2> QED BY <1>5, <2>1
<1>7. ~request[h].mixed /\ held = <<visits[i].row>> =>
        \A j \in 1..i : visits[j].name \in DOMAIN committees /\ committees[visits[j].name] = visits[j].row
  <2> SUFFICES ASSUME ~request[h].mixed, held = <<visits[i].row>>, NEW j \in 1..i
               PROVE  visits[j].name \in DOMAIN committees /\ committees[visits[j].name] = visits[j].row
    OBVIOUS
  <2> HIDE DEF visits, i, held
  <2>1. CASE j = i
    <3>1. <<visits[i].row>> # <<>>
      OBVIOUS
    <3>2. visits[i].name \in DOMAIN committees /\ <<visits[i].row>> = <<committees[visits[i].name]>>
      BY <1>6, <3>1
    <3> QED BY <2>1, <3>2
  <2>2. CASE j # i
    <3>1. j \in 1..i - 1
      BY <1>2, <2>2
    <3> QED BY <1>5, <3>1
  <2> QED BY <2>1, <2>2
<1>8. CASE Does(h, w) /\ UNCHANGED latest
  <2>1. request'[h] = w
    BY <1>8, DoesOne DEF UpdateInv, RowTypes, RowsInv
  <2>2. /\ w.at = "write" /\ w.versions = versions /\ w.next = i
        /\ w.mixed = request[h].mixed /\ w.held = held
    OBVIOUS
  <2> HIDE DEF w, held, i
  <2>3. Seen(h)'
    BY <1>1, <1>5, <1>6, <2>1, <2>2 DEF Seen
  <2> QED BY <1>1, <1>8, <2>3, SeenStep
<1>9. CASE held = <<visits[i].row>> /\ i < Len(visits) /\ Does(h, r) /\ UNCHANGED latest
  <2>1. request'[h] = r
    BY <1>9, DoesOne DEF UpdateInv, RowTypes, RowsInv
  <2>2. r.at = "look" /\ r.versions = versions /\ r.mixed = request[h].mixed
    BY <1>1 DEF versions
  <2>3. r.next = i + 1
    BY <1>1, <1>4 DEF RowTypes, Typed
  <2>4. \A j \in 1..r.next - 1 : j \in 1..i
    <3> HIDE DEF r, i
    <3> QED BY <1>2, <2>3
  <2> HIDE DEF r, held, i
  <2>5. Seen(h)'
    BY <1>1, <1>7, <1>9, <2>1, <2>2, <2>4 DEF Seen
  <2> QED BY <1>1, <1>9, <2>5, SeenStep
<1>10. CASE held = <<visits[i].row>> /\ ~(i < Len(visits)) /\ Updated(h)
  <2>1. latest'.versions = versions /\ (latest'.mixed <=> request[h].mixed)
    BY <1>10 DEF Updated, versions
  <2>2. i = Len(visits)
    <3> HIDE DEF visits, i
    <3> QED BY <1>2, <1>3, <1>10
  <2>3. DOMAIN visits = 1..i
    BY <1>3, <2>2
  <2> HIDE DEF held, i
  <2>4. UpdateIsWhole'
    BY <1>1, <1>7, <1>10, <2>1, <2>3 DEF UpdateIsWhole
  <2> QED BY <1>10, <2>4, UpdatedSeen DEF UpdateInv
<1> QED BY <1>1, <1>8, <1>9, <1>10

LEMMA InitUpdate == Init => UpdateInv
<1> SUFFICES ASSUME Init
             PROVE  UpdateInv
  OBVIOUS
<1>1. \A h \in Handlers : Seen(h)
  BY DEF Init, Idle, Seen
<1>2. UpdateIsWhole
  BY DEF Init, UpdateIsWhole
<1> QED BY <1>1, <1>2, InitTyped DEF UpdateInv

LEMMA StepKeepsUpdates == UpdateInv /\ [Next]_vars => UpdateInv'
<1> SUFFICES ASSUME UpdateInv, [Next]_vars
             PROVE  UpdateInv'
  OBVIOUS
<1>1. RowTypes'
  BY StepKeepsTypes DEF UpdateInv
<1>2. ASSUME UNCHANGED <<committees, request, latest>>
      PROVE  UpdateInv'
  <2>1. \A g \in Handlers : Seen(g)'
    BY <1>2, SeenOn DEF UpdateInv
  <2>2. UpdateIsWhole'
    BY <1>2 DEF UpdateInv, UpdateIsWhole
  <2> QED BY <1>1, <2>1, <2>2 DEF UpdateInv
<1>3. CASE UNCHANGED vars \/ Publish
  BY <1>2, <1>3 DEF vars, rows, Publish
<1>4. ASSUME NEW h \in Handlers, Handle(h)
      PROVE  UpdateInv'
  <2>1. ASSUME NEW r, Does(h, r), r.at \notin {"look", "write"}, UNCHANGED <<committees, latest>>
        PROVE  UpdateInv'
    <3>1. request'[h] = r
      BY <2>1, DoesOne DEF UpdateInv, RowTypes, RowsInv
    <3> QED BY <1>1, <2>1, <3>1, UnseenSeen, SeenStep
  <2>2. CASE AddKey(h)
    BY <2>1, <2>2 DEF AddKey, rows
  <2>3. CASE DeleteKey(h) \/ DeleteAllKeys(h)
    <3>1. PICK u, found : Reads(h, u, found)
      BY <2>3 DEF DeleteKey, DeleteAllKeys
    <3> DEFINE r == [at |-> "delete", user |-> u, read |-> [f \in found |-> keys[f]]]
    <3>2. Does(h, r) /\ UNCHANGED <<committees, latest>> /\ r.at = "delete"
      BY <3>1 DEF Reads, rows
    <3> HIDE DEF r
    <3> QED BY <2>1, <3>2
  <2>4. CASE ReadLinks(h)
    <3> DEFINE r == [at |-> "links", user |-> request[h].user, read |-> request[h].read,
                     links |-> {l \in links : l[2] \in DOMAIN request[h].read}]
    <3>1. Does(h, r) /\ UNCHANGED <<committees, latest>> /\ r.at = "links"
      BY <2>4 DEF ReadLinks, rows
    <3> HIDE DEF r
    <3> QED BY <2>1, <3>1
  <2>5. CASE CreateCandidate(h)
    <3>1. PICK p, c : Does(h, [at |-> "create", committee |-> c, project |-> p, found |-> p \in DOMAIN projects])
      BY <2>5 DEF CreateCandidate
    <3> QED BY <2>1, <2>5, <3>1 DEF CreateCandidate, rows
  <2>6. CASE InsertKey(h) \/ CommitDelete(h) \/ InsertRelease(h) \/ Fail(h)
    <3>1. Does(h, Idle) /\ UNCHANGED <<committees, latest>> /\ Idle.at = "idle"
      BY <2>6 DEF InsertKey, CommitDelete, InsertRelease, Fail, Ends, Idle, rows
    <3> QED BY <2>1, <3>1
  <2>7. CASE StartUpdate(h)
    BY <2>1, <2>7 DEF StartUpdate, rows
  <2>8. CASE Fetch(h)
    <3>1. PICK a, v : Does(h, [at |-> a, versions |-> v, next |-> 1, mixed |-> FALSE])
      BY <2>8 DEF Fetch
    <3>2. request'[h] = [at |-> a, versions |-> v, next |-> 1, mixed |-> FALSE]
      BY <3>1, DoesOne DEF UpdateInv, RowTypes, RowsInv
    <3>3. a \in {"look", "fetch"}
      <4>1. request'[h].at \in {"look", "fetch"}
        BY <2>8, DoesOne DEF UpdateInv, RowTypes, RowsInv, Fetch
      <4> QED BY <3>2, <4>1
    <3>4. 1..1 - 1 = {}
      OBVIOUS
    <3>5. Seen(h)'
      BY <3>2, <3>3, <3>4 DEF Seen
    <3> QED BY <1>1, <2>8, <3>1, <3>5, SeenStep DEF Fetch, rows
  <2>9. CASE Look(h)
    BY <1>1, <2>9, LookIsWhole
  <2>10. CASE CommitUpdate(h)
    BY <1>1, <2>10, CommitUpdateIsWhole
  <2> QED BY <1>4, <2>2, <2>3, <2>4, <2>5, <2>6, <2>7, <2>8, <2>9, <2>10 DEF Handle
<1> QED BY <1>3, <1>4 DEF Next

\* Whatever the remote data are and whatever failed before, the committees are what
\* they said after every update that had no other beside it.
THEOREM UpdatesAreWhole == Spec => []UpdateIsWhole
<1>1. UpdateInv => UpdateIsWhole
  BY DEF UpdateInv
<1> QED BY InitUpdate, StepKeepsUpdates, <1>1, PTL DEF Spec
=============================================================================
