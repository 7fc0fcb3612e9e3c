----------------------------- MODULE ReleaseRows -----------------------------
(***************************************************************************)
(* The rows that web handlers keep about committees, projects, releases    *)
(* and signing keys: keys/add, keys/delete and keys/delete-all,            *)
(* candidate/create, and the administrators' update of the committees from *)
(* remote data (routes/keys.py, routes/candidate.py, admin.py, on          *)
(* db/models.py through db/__init__.py).                                   *)
(*                                                                         *)
(* Handlers run concurrently.  SQLite reads without a lock and writes from *)
(* the first statement that changes something to the commit under one, so  *)
(* a transaction is here the reads it makes before its first write, each a *)
(* step, and one step for all the rest.  That step may always fail (the    *)
(* database is locked for too long): then nothing has changed.             *)
(*                                                                         *)
(* PRAGMA foreign_keys is executed once, on one connection of the pool;    *)
(* whether a handler's connection enforces foreign keys is open.           *)
(***************************************************************************)
EXTENDS Integers, SequencesExt

CONSTANTS Handlers,      \* the requests that are handled at once
          Users,         \* users who are signed in
          Names,         \* names of committees and of projects
          Tooling,       \* the committee that the update adds by itself
          SessionOf,     \* each user's session.committees + session.projects
          Fingerprints,
          Remote,        \* the states of the remote data, in their order
          MaxAdds,       \* bound on the keys added
          MaxReleases    \* bound on the releases

ASSUME SessionsHaveNames == SessionOf \in [Users -> SUBSET Names]
ASSUME ToolingIsName == Tooling \in Names
ASSUME NumberBounds == MaxAdds \in Nat /\ MaxReleases \in Nat

\* pmcs: the LDAP projects, of which none is skipped for having no PMC (pmc is then
\* False, and the code looks for None); podlings, which LDAP may list as well;
\* groups: groups.json, which need not have them all.
ASSUME RemoteLists ==
  /\ Remote \in Seq(Range(Remote)) /\ Remote # <<>>
  /\ \A v \in DOMAIN Remote :
       /\ {Remote[v].pmcs, Remote[v].podlings} \subseteq Seq(Names \ {Tooling})
       /\ IsInjective(Remote[v].pmcs) /\ IsInjective(Remote[v].podlings)

VARIABLES
  committees,  \* name -> [podling, people]; people: its members and committers
  projects,    \* name -> the committee it belongs to
  releases,    \* the projects of the releases, in the order of their creation
  keys,        \* fingerprint -> [owner, added]; added tells apart rows that came one after another
  links,       \* the KeyLink rows <<committee, fingerprint>>
  added,       \* how many keys have been added
  stray,       \* history: links left by a deletion whose key was replaced after it was read
  published,   \* which state of Remote is served now
  request,     \* what each handler does
  latest       \* history: the data of the last update, and was there another at once?

rows == <<committees, projects, releases, keys, links, added, stray>>
vars == <<rows, published, request, latest>>

Idle == [at |-> "idle"]
People == {"nobody", "tooling"} \cup UNION {Range(Remote[v].groups) : v \in DOMAIN Remote}
Committee == [podling : BOOLEAN, people : People]
Places == {"idle", "add", "delete", "links", "create", "fetch", "look", "write"}

TypeOK ==
  /\ DOMAIN committees \subseteq Names /\ Range(committees) \subseteq Committee
  /\ DOMAIN projects \subseteq Names /\ Range(projects) \subseteq DOMAIN committees
  /\ releases \in Seq(DOMAIN projects)
  /\ DOMAIN keys \subseteq Fingerprints /\ Range(keys) \subseteq [owner : Users, added : 1..MaxAdds]
  /\ links \subseteq Names \X Fingerprints
  /\ added \in 0..MaxAdds
  /\ stray \subseteq links
  /\ published \in DOMAIN Remote
  /\ \A h \in Handlers : request[h].at \in Places

Init ==
  /\ committees = <<>> /\ projects = <<>> /\ releases = <<>>
  /\ keys = <<>> /\ links = {}
  /\ added = 0 /\ stray = {}
  /\ published = 1
  /\ request = [h \in Handlers |-> Idle]
  /\ latest = [versions |-> <<>>, mixed |-> FALSE]

\* The rows of two tables, those of the first where both have one: @@ of TLC,
\* written out for the proofs.
Over(first, table) ==
  [k \in DOMAIN first \cup DOMAIN table |-> IF k \in DOMAIN first THEN first[k] ELSE table[k]]

Does(h, r) == request' = [request EXCEPT ![h] = r]
Ends(h) == Does(h, Idle)

\* The transaction is rolled back, or never begun.
Fail(h) ==
  /\ request[h] # Idle
  /\ Ends(h)
  /\ UNCHANGED <<rows, published, latest>>

-----------------------------------------------------------------------------
(* Signing keys *)

\* key_add_post has found the selected committees among the session's.
AddKey(h) ==
  /\ request[h] = Idle
  /\ \E u \in Users, f \in Fingerprints : \E selected \in SUBSET SessionOf[u] \ {{}} :
       Does(h, [at |-> "add", user |-> u, key |-> f, selected |-> selected])
  /\ UNCHANGED <<rows, published, latest>>

\* Autoflush inserts the key before the first committee is looked up; links are
\* made to those that exist.  Rows that are already there make it fail.
InsertKey(h) ==
  /\ request[h].at = "add"
  /\ added < MaxAdds
  /\ LET f == request[h].key
         new == {<<c, f>> : c \in request[h].selected \cap DOMAIN committees}
     IN  /\ f \notin DOMAIN keys
         /\ new \cap links = {}
         /\ keys' = Over(keys, [k \in {f} |-> [owner |-> request[h].user, added |-> added + 1]])
         /\ links' = links \cup new
  /\ added' = added + 1
  /\ Ends(h)
  /\ UNCHANGED <<committees, projects, releases, stray, published, latest>>

Reads(h, u, found) ==
  /\ found # {}
  /\ Does(h, [at |-> "delete", user |-> u, read |-> [f \in found |-> keys[f]]])
  /\ UNCHANGED <<rows, published, latest>>

\* Mutant of DeleteKey: the query does not ask for the owner.
DeleteKeyOfAnyone(h) ==
  /\ request[h] = Idle
  /\ \E u \in Users : \E f \in DOMAIN keys : Reads(h, u, {f})

\* root_keys_delete: "Get the key and verify ownership".
DeleteKey(h) ==
  /\ request[h] = Idle
  /\ \E u \in Users : \E f \in DOMAIN keys : keys[f].owner = u /\ Reads(h, u, {f})

DeleteAllKeys(h) ==
  /\ request[h] = Idle
  /\ \E u \in Users : Reads(h, u, {f \in DOMAIN keys : keys[f].owner = u})

\* The flush first loads the links of the keys to be deleted.
ReadLinks(h) ==
  /\ request[h].at = "delete"
  /\ Does(h, [at |-> "links", user |-> request[h].user, read |-> request[h].read,
              links |-> {l \in links : l[2] \in DOMAIN request[h].read}])
  /\ UNCHANGED <<rows, published, latest>>

\* Mutant of Unlinked: the links stay.
UnlinkedNone(h) == links

Unlinked(h) == links \ request[h].links

\* The links that were read are deleted, all of which must still be there
\* (StaleDataError), then the keys, by their fingerprint alone.  A connection that
\* enforces foreign keys refuses if a link to one of them is left.
CommitDelete(h) ==
  /\ request[h].at = "links"
  /\ request[h].links \subseteq links
  /\ LET read == request[h].read
         deleted == DOMAIN read \cap DOMAIN keys
     IN  /\ \E enforced \in BOOLEAN : enforced => \A l \in Unlinked(h) : l[2] \notin deleted
         /\ keys' = [f \in DOMAIN keys \ deleted |-> keys[f]]
         /\ stray' = {l \in Unlinked(h) : l \in stray \/ (l[2] \in deleted /\ keys[l[2]] # read[l[2]])}
  /\ links' = Unlinked(h)
  /\ Ends(h)
  /\ UNCHANGED <<committees, projects, releases, added, published, latest>>

-----------------------------------------------------------------------------
(* Release candidates *)

\* release_add_post reads the committee, which must be one of the session's, and
\* the project, by its name alone.
CreateCandidate(h) ==
  /\ request[h] = Idle
  /\ \E u \in Users, p \in Names : \E c \in SessionOf[u] \cap DOMAIN committees :
       Does(h, [at |-> "create", committee |-> c, project |-> p, found |-> p \in DOMAIN projects])
  /\ UNCHANGED <<rows, published, latest>>

\* Mutant of InsertRelease: a project that is there now is taken over.
InsertReleaseTakingOver(h) ==
  /\ request[h].at = "create"
  /\ Len(releases) < MaxReleases
  /\ LET p == request[h].project
     IN  /\ projects' = IF request[h].found THEN projects ELSE Over([k \in {p} |-> request[h].committee], projects)
         /\ releases' = Append(releases, p)
  /\ Ends(h)
  /\ UNCHANGED <<committees, keys, links, added, stray, published, latest>>

\* A project that was not found is added, unless one of its name is there now.
InsertRelease(h) ==
  /\ request[h].at = "create"
  /\ Len(releases) < MaxReleases
  /\ LET p == request[h].project
     IN  /\ request[h].found \/ p \notin DOMAIN projects
         /\ projects' = Over(projects, [k \in {p} |-> request[h].committee])
         /\ releases' = Append(releases, p)
  /\ Ends(h)
  /\ UNCHANGED <<committees, keys, links, added, stray, published, latest>>

-----------------------------------------------------------------------------
(* The update of the committees *)

\* The remote data change.
Publish ==
  /\ published < Len(Remote)
  /\ published' = published + 1
  /\ UNCHANGED <<rows, request, latest>>

StartUpdate(h) ==
  /\ request[h] = Idle
  /\ Does(h, [at |-> "fetch", versions |-> <<>>, next |-> 1, mixed |-> FALSE])
  /\ UNCHANGED <<rows, published, latest>>

\* LDAP projects, podlings and groups are fetched one after another.
Fetch(h) ==
  /\ request[h].at = "fetch"
  /\ LET versions == Append(request[h].versions, published)
     IN  Does(h, [at |-> IF Len(versions) = 3 THEN "look" ELSE "fetch", versions |-> versions,
                  next |-> 1, mixed |-> FALSE])
  /\ UNCHANGED <<rows, published, latest>>

GroupOf(groups, name) == IF name \in DOMAIN groups THEN groups[name] ELSE "nobody"

\* What _update_committees wants the committees to be, in its order.
Visits(versions) ==
  LET groups == Remote[versions[3]].groups
      Listed(names, podling) ==
        [i \in DOMAIN names |-> [name |-> names[i], row |-> [podling |-> podling, people |-> GroupOf(groups, names[i])]]]
  IN  Listed(Remote[versions[1]].pmcs, FALSE)
      \o Listed(Remote[versions[2]].podlings, TRUE)
      \o <<[name |-> Tooling, row |-> [podling |-> FALSE, people |-> "tooling"]]>>

\* The other updates under way have had this one beside them.
Updated(h) ==
  /\ request' = [g \in Handlers |->
       IF g = h THEN Idle
       ELSE IF request[g].at \in {"look", "write"} THEN [request[g] EXCEPT !.mixed = TRUE] ELSE request[g]]
  /\ latest' = [versions |-> request[h].versions, mixed |-> request[h].mixed]

\* Where a committee is visited first; 0 if it is not.
FirstVisit(visits, name) == SelectInSeq(visits, LAMBDA v : v.name = name)

\* A committee that was visited before is the object it was then.
Held(visits, i) ==
  LET name == visits[i].name
      before == FirstVisit(SubSeq(visits, 1, i - 1), name)
  IN  CASE before # 0 -> <<visits[before].row>>
        [] before = 0 /\ name \in DOMAIN committees -> <<committees[name]>>
        [] OTHER -> <<>>

\* A committee is read; nothing is written as long as there is nothing to change.
Look(h) ==
  /\ request[h].at = "look"
  /\ LET visits == Visits(request[h].versions)
         i == request[h].next
         held == Held(visits, i)
     IN  IF held # <<visits[i].row>>
         THEN /\ Does(h, [at |-> "write", versions |-> request[h].versions, next |-> i,
                          mixed |-> request[h].mixed, held |-> held])
              /\ UNCHANGED latest
         ELSE IF i < Len(visits)
         THEN Does(h, [request[h] EXCEPT !.next = @ + 1]) /\ UNCHANGED latest
         ELSE Updated(h)
  /\ UNCHANGED <<rows, published>>

\* Mutant of Changed: a PMC that was a podling stays one.
ChangedPeople(row, held, wanted) == [row EXCEPT !.people = wanted.people]

\* The UPDATE statement has the columns that differ from what was read.
Changed(row, held, wanted) ==
  [podling |-> IF held.podling = wanted.podling THEN row.podling ELSE wanted.podling,
   people  |-> IF held.people = wanted.people THEN row.people ELSE wanted.people]

\* Mutant of CoreProject: the new row is not flushed before its id is used.
CoreProjectWithoutId(name) == "NULL"

\* A new committee comes with a project of its name, which belongs to it.
CoreProject(name) == name

\* The row of a committee after all the visits to it; it starts as row, and the
\* session takes it to be held.
AfterVisits(visits, name, held, row) ==
  LET after[k \in 0..Len(visits)] ==
        IF k = 0 THEN [held |-> held, row |-> row]
        ELSE IF visits[k].name = name
        THEN [held |-> visits[k].row, row |-> Changed(after[k - 1].row, after[k - 1].held, visits[k].row)]
        ELSE after[k - 1]
  IN  after[Len(visits)].row

\* The visits that are left when the first change is made.
Rest(h) ==
  LET visits == Visits(request[h].versions)
  IN  SubSeq(visits, request[h].next, Len(visits))

\* What becomes of the row of a name among them: a new one, the one held, or one
\* that is read now.
RowAfter(h, n) ==
  LET rest == Rest(h)
      wanted == rest[FirstVisit(rest, n)].row
  IN  CASE n \notin DOMAIN committees -> AfterVisits(rest, n, wanted, wanted)
        [] n \in DOMAIN committees /\ n = Head(rest).name -> AfterVisits(rest, n, request[h].held[1], committees[n])
        [] OTHER -> AfterVisits(rest, n, committees[n], committees[n])

\* From its first change on, the update is alone.  It fails if a committee or a
\* project that it adds is there already.
CommitUpdate(h) ==
  /\ request[h].at = "write"
  /\ LET names == {v.name : v \in Range(Rest(h))}
         new == names \ DOMAIN committees
     IN  /\ request[h].held = <<>> => Head(Rest(h)).name \in new
         /\ new \cap DOMAIN projects = {}
         /\ committees' = Over([n \in names |-> RowAfter(h, n)], committees)
         /\ projects' = Over([n \in new |-> CoreProject(n)], projects)
  /\ Updated(h)
  /\ UNCHANGED <<releases, keys, links, added, stray, published>>

Handle(h) ==
  \/ AddKey(h) \/ InsertKey(h)
  \/ DeleteKey(h) \/ DeleteAllKeys(h) \/ ReadLinks(h) \/ CommitDelete(h)
  \/ CreateCandidate(h) \/ InsertRelease(h)
  \/ StartUpdate(h) \/ Fetch(h) \/ Look(h) \/ CommitUpdate(h)
  \/ Fail(h)

Next == Publish \/ \E h \in Handlers : Handle(h)
Spec == Init /\ [][Next]_vars

-----------------------------------------------------------------------------
(* Properties *)

\* A link leads from a committee that exists, and to a key that exists and whose
\* owner was in that committee, unless a deletion left it: one whose key was deleted
\* and added again, with other links, between its reads and its commit.
LinksHaveEnds ==
  \A l \in links :
    /\ l[1] \in DOMAIN committees
    /\ l \in stray \/ (l[2] \in DOMAIN keys /\ l[1] \in SessionOf[keys[l[2]].owner])

\* A key is only ever removed by a request that has read it as its user's, or that
\* has read another row of the same fingerprint, deleted and added again since.
OnlyOwnersDelete ==
  [][\A f \in DOMAIN keys \ DOMAIN keys' :
       \E h \in Handlers :
         /\ request[h].at = "links" /\ f \in DOMAIN request[h].read
         /\ request[h].user = keys[f].owner \/ request[h].read[f] # keys[f]]_vars

\* Each committee has the project of its name, though projects of any name may be
\* created while the committees are updated.
CoreProjects == \A c \in DOMAIN committees : c \in DOMAIN projects /\ projects[c] = c

\* After an update beside which there was no other, every committee in the remote
\* data is what the data said, as a podling if it is among the podlings, whatever
\* failed before.
UpdateIsWhole ==
  latest.versions # <<>> /\ ~latest.mixed =>
    LET visits == Visits(latest.versions)
    IN  \A i \in DOMAIN visits :
          (\A j \in i + 1..Len(visits) : visits[j].name # visits[i].name) =>
            visits[i].name \in DOMAIN committees /\ committees[visits[i].name] = visits[i].row
=============================================================================
