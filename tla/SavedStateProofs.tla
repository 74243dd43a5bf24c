--------------------------- MODULE SavedStateProofs ---------------------------
(***************************************************************************)
(* Proofs about SavedState, for any number of windows, connections,        *)
(* folders and process ids, and any number of changes, kills, losses of    *)
(* power and faults.  What is found between runs is whole and shown, the   *)
(* keychain holds no secret of nobody's, and tabs are offered once.        *)
(***************************************************************************)
EXTENDS SavedState, TLAPS

-----------------------------------------------------------------------------
(* What a content is made of.                                              *)

PlaceSet == {Root} \cup Folders

FolderMaps == Partial(Folders, PlaceSet)
ConnMaps == Partial(Sessions, Conns)

LEMMA IsPartial ==
  ASSUME NEW S, NEW T, NEW D \in SUBSET S, NEW f \in [D -> T]
  PROVE  f \in Partial(S, T)
BY DEF Partial

LEMMA PartialParts ==
  ASSUME NEW S, NEW T, NEW f \in Partial(S, T)
  PROVE  DOMAIN f \in SUBSET S /\ f \in [DOMAIN f -> T] /\ \A x \in DOMAIN f : f[x] \in T
BY DEF Partial

LEMMA ContentParts ==
  ASSUME NEW c \in Contents
  PROVE  /\ c.folders \in FolderMaps /\ c.sessions \in ConnMaps /\ c.missing = FALSE
         /\ DOMAIN c = {"folders", "sessions", "missing"}
BY DEF Contents, PlaceSet, FolderMaps, ConnMaps

LEMMA ContentOf ==
  ASSUME NEW f \in FolderMaps, NEW s \in ConnMaps
  PROVE  /\ Content(f, s) \in Contents
         /\ Content(f, s).folders = f /\ Content(f, s).sessions = s
<1>1. Contents = [folders : FolderMaps, sessions : ConnMaps, missing : {FALSE}]
  BY DEF Contents, PlaceSet, FolderMaps, ConnMaps
<1> QED BY <1>1 DEF Content

LEMMA ContentDomains ==
  ASSUME NEW c \in Contents
  PROVE  /\ DOMAIN c.folders \in SUBSET Folders /\ DOMAIN c.sessions \in SUBSET Sessions
         /\ \A f \in DOMAIN c.folders : c.folders[f] \in PlaceSet
         /\ \A s \in DOMAIN c.sessions : c.sessions[s] \in Conns
<1>1. c.folders \in Partial(Folders, PlaceSet) /\ c.sessions \in Partial(Sessions, Conns)
  BY ContentParts DEF FolderMaps, ConnMaps
<1> QED BY <1>1, PartialParts

LEMMA EmptyIsContent == Empty \in Contents /\ DOMAIN Empty.folders = {} /\ DOMAIN Empty.sessions = {}
<1>1. <<>> \in [{} -> PlaceSet] /\ <<>> \in [{} -> Conns] /\ DOMAIN <<>> = {}
  OBVIOUS
<1>2. <<>> \in FolderMaps /\ <<>> \in ConnMaps
  BY <1>1, IsPartial DEF FolderMaps, ConnMaps
<1> QED BY <1>1, <1>2, ContentOf DEF Empty

LEMMA NothingIsNone == Nothing \notin Contents /\ Torn \notin Contents \cup {Nothing}
<1>1. Nothing.missing = TRUE /\ DOMAIN Torn = {"folders", "sessions", "missing", "torn"}
  BY DEF Nothing, Torn
<1>2. \A c \in Contents : c.missing = FALSE /\ DOMAIN c = {"folders", "sessions", "missing"}
  BY DEF Contents
<1>3. DOMAIN Nothing = {"folders", "sessions", "missing"}
  BY DEF Nothing
<1> QED BY <1>1, <1>2, <1>3

LEMMA ParsedIsContent ==
  ASSUME NEW file \in Contents \cup {Nothing}
  PROVE  /\ Parsed(file) \in Contents
         /\ file # Nothing => Parsed(file) = file /\ file \in Contents
BY EmptyIsContent, NothingIsNone DEF Parsed

-----------------------------------------------------------------------------
(* What the commands do to a content.                                      *)

SecretSet == {NoSecret, "first", "typed"}
Jobs ==
  [op : {"load", "save", "reorder", "delete", "folder", "folderDelete"},
   id : PlaceSet \cup Sessions, folder : PlaceSet, ids : SUBSET Sessions, conn : Conns,
   typed : SecretSet, plan : {"keep", "set", "delete"}, had : BOOLEAN]
JobFits(job) ==
  /\ job.op \in {"save", "delete"} => job.id \in Sessions
  /\ job.op \in {"folder", "folderDelete"} => job.id \in Folders

LEMMA PutType ==
  ASSUME NEW S, NEW T, NEW f \in Partial(S, T), NEW x \in S, NEW v \in T
  PROVE  Put(f, x, v) \in Partial(S, T)
<1>1. DOMAIN f \in SUBSET S /\ f \in [DOMAIN f -> T]
  BY PartialParts
<1>2. Put(f, x, v) \in [DOMAIN f \cup {x} -> T]
  BY <1>1 DEF Put
<1> QED BY <1>1, <1>2, IsPartial

LEMMA UpsertParts ==
  ASSUME NEW c \in Contents, NEW id \in Sessions, NEW conn \in Conns
  PROVE  LET a == SessionsUpsert(c, id, conn)
         IN a \in Contents /\ a.folders = c.folders /\ a.sessions = Put(c.sessions, id, conn)
<1>1. Put(c.sessions, id, conn) \in ConnMaps
  BY ContentParts, PutType DEF ConnMaps
<1> QED BY <1>1, ContentParts, ContentOf DEF SessionsUpsert

LEMMA ReorderParts ==
  ASSUME NEW c \in Contents, NEW folder \in PlaceSet, NEW ids
  PROVE  LET a == SessionsReorder(c, folder, ids)
         IN a \in Contents /\ a.folders = c.folders /\ a.sessions = Moved(c, folder, ids)
<1>1. \A k \in Conns : [k EXCEPT !.folder = folder] \in Conns
  BY DEF Conns, PlaceSet
<1>2. Moved(c, folder, ids) \in [DOMAIN c.sessions -> Conns]
  BY <1>1, ContentDomains DEF Moved
<1>3. Moved(c, folder, ids) \in ConnMaps
  BY <1>2, ContentDomains, IsPartial DEF ConnMaps
<1> QED BY <1>3, ContentParts, ContentOf DEF SessionsReorder

LEMMA DeleteParts ==
  ASSUME NEW c \in Contents, NEW id
  PROVE  LET a == SessionsDelete(c, id)
         IN a \in Contents /\ a.folders = c.folders /\ a.sessions = Without(c.sessions, id)
<1>1. Without(c.sessions, id) \in [DOMAIN c.sessions \ {id} -> Conns]
  BY ContentDomains DEF Without
<1>2. Without(c.sessions, id) \in ConnMaps
  BY <1>1, ContentDomains, IsPartial DEF ConnMaps
<1> QED BY <1>2, ContentParts, ContentOf DEF SessionsDelete

LEMMA FolderUpsertParts ==
  ASSUME NEW c \in Contents, NEW id \in Folders, NEW parent \in PlaceSet
  PROVE  LET a == FolderUpsert(c, id, parent)
         IN a \in Contents /\ a.folders = Put(c.folders, id, parent) /\ a.sessions = c.sessions
<1>1. Put(c.folders, id, parent) \in FolderMaps
  BY ContentParts, PutType DEF FolderMaps
<1> QED BY <1>1, ContentParts, ContentOf DEF FolderUpsert

LEMMA LiftedType ==
  ASSUME NEW c \in Contents, NEW id, NEW place \in PlaceSet
  PROVE  Lifted(c, id, place) \in PlaceSet
BY ContentDomains DEF Lifted, PlaceSet

LEMMA FolderDeleteParts ==
  ASSUME NEW c \in Contents, NEW id
  PROVE  LET a == FolderDelete(c, id)
         IN /\ a \in Contents
            /\ a.folders = FoldersWithout(c, id) /\ a.sessions = SessionsLifted(c, id)
<1>1. FoldersWithout(c, id) \in [DOMAIN c.folders \ {id} -> PlaceSet]
  BY LiftedType, ContentDomains DEF FoldersWithout
<1>2. SessionsLifted(c, id) \in [DOMAIN c.sessions -> Conns]
  <2>1. \A k \in Conns : k.folder \in PlaceSet /\ \A p \in PlaceSet : [k EXCEPT !.folder = p] \in Conns
    BY DEF Conns, PlaceSet
  <2>2. ASSUME NEW x \in DOMAIN c.sessions
        PROVE  [c.sessions[x] EXCEPT !.folder = Lifted(c, id, c.sessions[x].folder)] \in Conns
    <3>1. c.sessions[x] \in Conns /\ Lifted(c, id, c.sessions[x].folder) \in PlaceSet
      BY <2>1, LiftedType, ContentDomains
    <3> QED BY <3>1 DEF Conns, PlaceSet
  <2> QED BY <2>2 DEF SessionsLifted
<1>3. SessionsLifted(c, id) \in ConnMaps /\ FoldersWithout(c, id) \in FolderMaps
  BY <1>1, <1>2, ContentDomains, IsPartial DEF ConnMaps, FolderMaps
<1> QED BY <1>3, ContentOf DEF FolderDelete

LEMMA ApplyType ==
  ASSUME NEW c \in Contents, NEW job \in Jobs, JobFits(job)
  PROVE  Apply(c, job) \in Contents
<1>1. /\ job.op \in {"load", "save", "reorder", "delete", "folder", "folderDelete"}
      /\ job.folder \in PlaceSet /\ job.conn \in Conns
  BY DEF Jobs
<1> QED BY <1>1, UpsertParts, ReorderParts, DeleteParts, FolderUpsertParts, FolderDeleteParts
        DEF Apply, JobFits

-----------------------------------------------------------------------------
(* The tree.  That all is shown is no fact a command can keep by itself: the *)
(* fact it keeps is that every parent is there and no folders are among      *)
(* themselves, each in one of them.                                          *)

Rooted(c) ==
  /\ \A f \in DOMAIN c.folders : c.folders[f] \in Places(c)
  /\ \A s \in DOMAIN c.sessions : c.sessions[s].folder \in Places(c)
  /\ \A S \in SUBSET DOMAIN c.folders : S # {} => \E f \in S : c.folders[f] \notin S

LEMMA PlacesType == ASSUME NEW c \in Contents PROVE Places(c) \subseteq PlaceSet
BY ContentDomains DEF Places, PlaceSet

LEMMA AboveItself ==
  ASSUME NEW c, NEW p \in PlaceSet
  PROVE  p \in Above(c, p)
BY DEF Above, PlaceSet

LEMMA AboveParent ==
  ASSUME NEW c, NEW f \in DOMAIN c.folders
  PROVE  Above(c, c.folders[f]) \subseteq Above(c, f)
BY DEF Above

\* What is closed and has a folder has all that is above it.
LEMMA AboveLeast ==
  ASSUME NEW c, NEW f, NEW S \in SUBSET PlaceSet, f \in S,
         \A g \in S \cap DOMAIN c.folders : c.folders[g] \in S
  PROVE  Above(c, f) \subseteq S
BY DEF Above, PlaceSet

\* Above what no folder is, there is nothing.
LEMMA NoneAbove ==
  ASSUME NEW c, NEW p \in PlaceSet, p \notin DOMAIN c.folders
  PROVE  Above(c, p) = {p}
<1> DEFINE S == {p}
<1>1. S \in SUBSET PlaceSet /\ p \in S /\ \A g \in S \cap DOMAIN c.folders : c.folders[g] \in S
  OBVIOUS
<1> HIDE DEF S
<1>2. Above(c, p) \subseteq S
  BY <1>1, AboveLeast
<1> QED BY <1>2, AboveItself DEF S

LEMMA NoneAboveRoot == ASSUME NEW c \in Contents PROVE Above(c, Root) = {Root}
<1>1. Root \notin DOMAIN c.folders /\ Root \in PlaceSet
  BY ContentDomains, SavedAssumption DEF PlaceSet
<1> QED BY <1>1, NoneAbove

LEMMA RootedReaches ==
  ASSUME NEW c \in Contents, Rooted(c), NEW p \in Places(c)
  PROVE  Root \in Above(c, p)
<1> DEFINE T == {f \in DOMAIN c.folders : Root \notin Above(c, f)}
<1>1. Root \in Above(c, Root)
  BY NoneAboveRoot
<1>2. ASSUME NEW f \in T PROVE c.folders[f] \in T
  BY <1>1, <1>2, AboveParent DEF Rooted, Places
<1>3. T = {}
  BY <1>2 DEF Rooted
<1> QED BY <1>1, <1>3 DEF Places

LEMMA RootedIsShown == ASSUME NEW c \in Contents, Rooted(c) PROVE AllShown(c)
<1>1. \A f \in DOMAIN c.folders : Root \in Above(c, f)
  BY RootedReaches DEF Places
<1>2. \A s \in DOMAIN c.sessions : Root \in Above(c, c.sessions[s].folder)
  BY RootedReaches DEF Rooted
<1> QED BY <1>1, <1>2 DEF AllShown, Shown

LEMMA ShownIsRooted == ASSUME NEW c \in Contents, AllShown(c) PROVE Rooted(c)
<1>1. DOMAIN c.folders \in SUBSET Folders /\ DOMAIN c.sessions \in SUBSET Sessions
  BY ContentDomains
<1>2. \A f \in DOMAIN c.folders : Root \in Above(c, f)
  BY <1>1, SavedAssumption DEF AllShown, Shown
<1>3. \A s \in DOMAIN c.sessions : Root \in Above(c, c.sessions[s].folder)
  BY <1>1, SavedAssumption DEF AllShown, Shown
<1>4. ASSUME NEW p \in PlaceSet, Root \in Above(c, p) PROVE p \in Places(c)
  <2>1. CASE p \in DOMAIN c.folders
    BY <2>1 DEF Places
  <2>2. CASE p \notin DOMAIN c.folders
    <3>1. Above(c, p) = {p}
      BY <2>2, NoneAbove
    <3> QED BY <1>4, <3>1 DEF Places
  <2> QED BY <2>1, <2>2
<1>5. ASSUME NEW f \in DOMAIN c.folders PROVE c.folders[f] \in Places(c)
  <2>1. SUFFICES ASSUME c.folders[f] \notin Places(c) PROVE FALSE
    OBVIOUS
  <2>2. c.folders[f] \in PlaceSet /\ f \in PlaceSet /\ f # Root
    BY <1>1, ContentDomains, SavedAssumption DEF PlaceSet
  <2>3. c.folders[f] # Root /\ c.folders[f] \notin DOMAIN c.folders
    BY <2>1 DEF Places
  <2>4. Above(c, f) \subseteq {f, c.folders[f]}
    <3> DEFINE S == {f, c.folders[f]}
    <3>1. S \in SUBSET PlaceSet /\ f \in S /\ \A g \in S \cap DOMAIN c.folders : c.folders[g] \in S
      BY <2>2, <2>3
    <3> HIDE DEF S
    <3>2. Above(c, f) \subseteq S
      BY <3>1, AboveLeast
    <3> QED BY <3>2 DEF S
  <2> QED BY <1>2, <2>2, <2>3, <2>4
<1>6. ASSUME NEW s \in DOMAIN c.sessions PROVE c.sessions[s].folder \in Places(c)
  <2>1. c.sessions[s].folder \in PlaceSet
    BY ContentDomains DEF Conns, PlaceSet
  <2> QED BY <1>3, <1>4, <2>1
<1>7. ASSUME NEW S \in SUBSET DOMAIN c.folders, S # {}
      PROVE  \E f \in S : c.folders[f] \notin S
  <2>1. SUFFICES ASSUME \A f \in S : c.folders[f] \in S PROVE FALSE
    OBVIOUS
  <2>2. PICK f \in S : TRUE
    BY <1>7
  <2>3. S \in SUBSET PlaceSet
    BY <1>1 DEF PlaceSet
  <2>4. Above(c, f) \subseteq S
    BY <2>1, <2>3, AboveLeast
  <2> QED BY <1>1, <1>2, <2>2, <2>4, SavedAssumption
<1> QED BY <1>5, <1>6, <1>7 DEF Rooted

\* What the user may ask for where the tree is c.
Follows(c, job) ==
  /\ job.op = "save" => job.conn.folder \in Places(c)
  /\ job.op \in {"reorder", "folder"} => job.folder \in Places(c)
  /\ job.op = "folder" => job.id \notin Above(c, job.folder)

\* Moving a folder: folders among themselves would be in it and so above where
\* it goes, or have been so before.
LEMMA FolderUpsertRooted ==
  ASSUME NEW c \in Contents, Rooted(c), NEW id \in Folders, NEW parent \in Places(c),
         id \notin Above(c, parent)
  PROVE  Rooted(FolderUpsert(c, id, parent))
<1> DEFINE d == FolderUpsert(c, id, parent)
<1>1. parent \in PlaceSet /\ c.folders \in FolderMaps
  BY PlacesType, ContentParts
<1>2. d.folders = Put(c.folders, id, parent) /\ d.sessions = c.sessions
  BY <1>1, FolderUpsertParts
<1> HIDE DEF d
<1>3. /\ DOMAIN d.folders = DOMAIN c.folders \cup {id} /\ d.folders[id] = parent
      /\ \A f \in DOMAIN c.folders \ {id} : d.folders[f] = c.folders[f]
  BY <1>2 DEF Put
<1>4. Places(c) \subseteq Places(d)
  BY <1>3 DEF Places
<1>5. ASSUME NEW S \in SUBSET DOMAIN d.folders, S # {}
      PROVE  \E f \in S : d.folders[f] \notin S
  <2>1. SUFFICES ASSUME \A f \in S : d.folders[f] \in S PROVE FALSE
    OBVIOUS
  <2>2. CASE id \notin S
    <3>1. S \in SUBSET DOMAIN c.folders /\ \A f \in S : c.folders[f] \in S
      BY <1>3, <2>1, <2>2
    <3> QED BY <1>5, <3>1 DEF Rooted
  <2>3. CASE id \in S
    <3> DEFINE T == {f \in S \cap DOMAIN c.folders : id \notin Above(c, f)}
    <3>1. id \in Above(c, id)
      BY AboveItself DEF PlaceSet
    <3>2. parent \in T
      <4>1. parent \in S /\ parent # id
        BY <1>3, <2>1, <2>3, <3>1
      <4> QED BY <1>3, <4>1
    <3>3. ASSUME NEW f \in T PROVE c.folders[f] \in T
      <4>1. f # id /\ d.folders[f] = c.folders[f] /\ c.folders[f] \in S
        BY <1>3, <2>1, <3>1
      <4>2. id \notin Above(c, c.folders[f])
        BY AboveParent
      <4>3. c.folders[f] # id
        BY <3>1, <4>2
      <4> QED BY <1>3, <4>1, <4>2, <4>3
    <3> QED BY <3>2, <3>3 DEF Rooted
  <2> QED BY <2>2, <2>3
<1> QED BY <1>2, <1>3, <1>4, <1>5 DEF Rooted, d

\* Deleting a folder: folders among themselves were so before, with it or without.
LEMMA FolderDeleteRooted ==
  ASSUME NEW c \in Contents, Rooted(c), NEW id \in Folders
  PROVE  Rooted(FolderDelete(c, id))
<1> DEFINE d == FolderDelete(c, id)
<1>1. d.folders = FoldersWithout(c, id) /\ d.sessions = SessionsLifted(c, id)
  BY FolderDeleteParts
<1> HIDE DEF d
<1>2. /\ DOMAIN d.folders = DOMAIN c.folders \ {id} /\ DOMAIN d.sessions = DOMAIN c.sessions
      /\ \A f \in DOMAIN d.folders : d.folders[f] = Lifted(c, id, c.folders[f])
  BY <1>1 DEF FoldersWithout, SessionsLifted
<1>3. id # Root
  BY SavedAssumption
<1>4. ASSUME id \in DOMAIN c.folders PROVE c.folders[id] # id
  <2>1. {id} \in SUBSET DOMAIN c.folders /\ {id} # {}
    BY <1>4
  <2>2. \E f \in {id} : c.folders[f] \notin {id}
    BY <2>1 DEF Rooted
  <2> QED BY <2>2
<1>5. ASSUME NEW p \in Places(c) PROVE Lifted(c, id, p) \in Places(d)
  BY <1>2, <1>3, <1>4 DEF Lifted, Places, Rooted
<1>6. ASSUME NEW s \in DOMAIN c.sessions PROVE d.sessions[s].folder \in Places(d)
  <2>1. c.sessions[s] \in Conns
    BY ContentDomains
  <2>2. d.sessions[s].folder = Lifted(c, id, c.sessions[s].folder)
    BY <1>1, <2>1 DEF SessionsLifted, Conns
  <2> QED BY <1>5, <2>2 DEF Rooted
<1>7. ASSUME NEW S \in SUBSET DOMAIN d.folders, S # {}
      PROVE  \E f \in S : d.folders[f] \notin S
  <2>1. SUFFICES ASSUME \A f \in S : d.folders[f] \in S PROVE FALSE
    OBVIOUS
  <2>2. CASE \E g \in S : c.folders[g] = id
    <3>1. PICK g \in S : c.folders[g] = id
      BY <2>2
    <3>2. Lifted(c, id, id) \in S
      BY <1>2, <2>1, <3>1
    <3>3. id \in DOMAIN c.folders /\ c.folders[id] \in S
      BY <1>2, <3>2, ContentDomains, SavedAssumption DEF Lifted
    <3>4. \A f \in S \cup {id} : f \in DOMAIN c.folders /\ c.folders[f] \in S \cup {id}
      BY <1>2, <2>1, <3>3 DEF Lifted
    <3> QED BY <3>4 DEF Rooted
  <2>3. CASE \A g \in S : c.folders[g] # id
    <3>1. \A f \in S : f \in DOMAIN c.folders /\ c.folders[f] \in S
      BY <1>2, <2>1, <2>3 DEF Lifted
    <3> QED BY <1>7, <3>1 DEF Rooted
  <2> QED BY <2>2, <2>3
<1> QED BY <1>2, <1>5, <1>6, <1>7 DEF Rooted, d

LEMMA ApplyRooted ==
  ASSUME NEW c \in Contents, Rooted(c), NEW job \in Jobs, JobFits(job), Follows(c, job)
  PROVE  Rooted(Apply(c, job))
<1>1. /\ job.op \in {"load", "save", "reorder", "delete", "folder", "folderDelete"}
      /\ job.folder \in PlaceSet /\ job.conn \in Conns
  BY DEF Jobs
<1>2. ASSUME NEW d, d.folders = c.folders,
             \A s \in DOMAIN d.sessions : d.sessions[s].folder \in Places(c)
      PROVE  Rooted(d)
  BY <1>2 DEF Rooted, Places
<1>3. CASE job.op = "save"
  <2>1. job.id \in Sessions /\ job.conn.folder \in Places(c) /\ c.sessions \in ConnMaps
    BY <1>3, ContentParts DEF JobFits, Follows
  <2>2. \A s \in DOMAIN Put(c.sessions, job.id, job.conn) :
          Put(c.sessions, job.id, job.conn)[s].folder \in Places(c)
    <3>1. /\ DOMAIN Put(c.sessions, job.id, job.conn) = DOMAIN c.sessions \cup {job.id}
          /\ Put(c.sessions, job.id, job.conn)[job.id] = job.conn
          /\ \A s \in DOMAIN c.sessions \ {job.id} :
               Put(c.sessions, job.id, job.conn)[s] = c.sessions[s]
      BY DEF Put
    <3> QED BY <2>1, <3>1 DEF Rooted
  <2>3. Rooted(SessionsUpsert(c, job.id, job.conn))
    BY <1>1, <1>2, <2>1, <2>2, UpsertParts
  <2> QED BY <1>3, <2>3 DEF Apply
<1>4. CASE job.op = "reorder"
  <2>1. job.folder \in Places(c)
    BY <1>4 DEF Follows
  <2>2. ASSUME NEW s \in DOMAIN c.sessions
        PROVE  Moved(c, job.folder, job.ids)[s].folder \in Places(c)
    <3>1. c.sessions[s] \in Conns /\ c.sessions[s].folder \in Places(c)
      BY ContentDomains DEF Rooted
    <3>2. [c.sessions[s] EXCEPT !.folder = job.folder].folder = job.folder
      BY <3>1 DEF Conns
    <3> QED BY <2>1, <3>1, <3>2 DEF Moved
  <2>3. Rooted(SessionsReorder(c, job.folder, job.ids))
    <3>1. DOMAIN Moved(c, job.folder, job.ids) = DOMAIN c.sessions
      BY DEF Moved
    <3>2. /\ SessionsReorder(c, job.folder, job.ids).folders = c.folders
          /\ SessionsReorder(c, job.folder, job.ids).sessions = Moved(c, job.folder, job.ids)
      BY <1>1, ReorderParts
    <3> QED BY <1>2, <2>2, <3>1, <3>2
  <2> QED BY <1>4, <2>3 DEF Apply
<1>5. CASE job.op = "delete"
  <2>1. \A s \in DOMAIN Without(c.sessions, job.id) :
          Without(c.sessions, job.id)[s].folder \in Places(c)
    BY DEF Without, Rooted
  <2>2. Rooted(SessionsDelete(c, job.id))
    BY <1>2, <2>1, DeleteParts
  <2> QED BY <1>5, <2>2 DEF Apply
<1>6. CASE job.op = "folder"
  BY <1>6, FolderUpsertRooted DEF Apply, Follows, JobFits
<1>7. CASE job.op = "folderDelete"
  BY <1>7, FolderDeleteRooted DEF Apply, JobFits
<1>8. CASE job.op = "load"
  BY <1>8 DEF Apply
<1> QED BY <1>1, <1>3, <1>4, <1>5, <1>6, <1>7, <1>8

-----------------------------------------------------------------------------
(* What the user may ask for.                                              *)

LEMMA NoJobType == NoJob \in Jobs /\ NoJob.op = "load" /\ NoJob.plan = "keep" /\ JobFits(NoJob)
<1>1. Conn(Root, FALSE, "password") \in Conns
  BY SavedAssumption DEF Conn, Conns
<1>2. NoJob = [op |-> "load", id |-> Root, folder |-> Root, ids |-> {},
               conn |-> Conn(Root, FALSE, "password"), typed |-> "none", plan |-> "keep", had |-> FALSE]
  BY DEF NoJob, NoSecret
<1>3. Root \in PlaceSet /\ {} \in SUBSET Sessions
  BY DEF PlaceSet
<1>4. "load" \in {"load", "save", "reorder", "delete", "folder", "folderDelete"}
      /\ "keep" \in {"keep", "set", "delete"} /\ "none" \in SecretSet /\ FALSE \in BOOLEAN
      /\ Root \in PlaceSet \cup Sessions
  BY <1>3 DEF SecretSet, NoSecret
<1>5. NoJob \in Jobs
  BY <1>1, <1>2, <1>3, <1>4 DEF Jobs
<1> QED BY <1>2, <1>5 DEF JobFits

\* A new connection has no secret; a secret is kept only for what is saved.
Plans(job) ==
  /\ job.plan # "keep" => job.op = "save"
  /\ job.plan = "set" => job.conn.saveSecret
  /\ job.op = "save" /\ job.plan = "keep" => job.conn.saveSecret \/ keychain[job.id] = NoSecret

Asked(tree, job) ==
  /\ job \in Jobs /\ JobFits(job) /\ job.op # "load"
  /\ Follows(tree, job) /\ Plans(job)

LEMMA SaveAsked ==
  ASSUME NEW tree \in Contents, NEW id \in DOMAIN tree.sessions \cup NewSessions,
         NEW folder \in Places(tree), NEW saved \in BOOLEAN, NEW auth \in Auths,
         NEW typed \in {NoSecret, "typed"}
  PROVE  Asked(tree, Save(tree, id, Conn(folder, saved, auth), typed))
<1> DEFINE conn == Conn(folder, saved, auth)
           plan == PlanSecretMutation(tree, id, conn, typed)
           had == id \in DOMAIN tree.sessions /\ tree.sessions[id].saveSecret
           job == Save(tree, id, conn, typed)
<1>1. id \in Sessions /\ (id \notin DOMAIN tree.sessions => keychain[id] = NoSecret)
  BY ContentDomains DEF NewSessions, New
<1>2. conn \in Conns /\ conn.folder = folder
  BY PlacesType DEF Conn, Conns, PlaceSet
<1>3. typed \in SecretSet
  BY DEF SecretSet
<1> HIDE DEF conn
<1>4. /\ plan \in {"keep", "set", "delete"} /\ (plan = "set" => conn.saveSecret)
      /\ plan = "keep" => conn.saveSecret \/ id \notin DOMAIN tree.sessions
  BY DEF PlanSecretMutation
<1>5. had \in BOOLEAN
  BY ContentDomains DEF Conns
<1>6. job = [NoJob EXCEPT !.op = "save", !.id = id, !.conn = conn, !.typed = typed,
                          !.plan = plan, !.had = had]
  BY DEF Save
<1> HIDE DEF plan, had, job
<1>7. job \in Jobs /\ job.op = "save" /\ job.id = id /\ job.conn = conn /\ job.plan = plan
  BY <1>1, <1>2, <1>3, <1>4, <1>5, <1>6, NoJobType DEF Jobs
<1>8. Asked(tree, job)
  BY <1>1, <1>2, <1>4, <1>7 DEF Asked, JobFits, Follows, Plans
<1> QED BY <1>8 DEF job, conn

LEMMA DropAsked ==
  ASSUME NEW tree \in Contents, NEW id \in DOMAIN tree.sessions, NEW folder \in Places(tree)
  PROVE  Asked(tree, Drop(tree, id, folder))
<1> DEFINE job == Drop(tree, id, folder)
           ids == {id} \cup {s \in DOMAIN tree.sessions : tree.sessions[s].folder = folder}
<1>1. ids \in SUBSET Sessions /\ folder \in PlaceSet
  BY ContentDomains, PlacesType
<1>2. job = [NoJob EXCEPT !.op = "reorder", !.folder = folder, !.ids = ids]
  BY DEF Drop
<1> HIDE DEF job, ids
<1>3. job \in Jobs /\ job.op = "reorder" /\ job.folder = folder /\ job.plan = "keep"
  BY <1>1, <1>2, NoJobType DEF Jobs
<1> QED BY <1>3 DEF Asked, JobFits, Follows, Plans, job

LEMMA FolderMoveAsked ==
  ASSUME NEW tree \in Contents, NEW id \in DOMAIN tree.folders \cup NewFolders,
         NEW folder \in Places(tree), id \notin Above(tree, folder)
  PROVE  Asked(tree, FolderMove(id, folder))
<1>1. id \in Folders /\ folder \in PlaceSet
  BY PlacesType, ContentDomains DEF NewFolders, New
<1>2. /\ FolderMove(id, folder) \in Jobs /\ FolderMove(id, folder).op = "folder"
      /\ FolderMove(id, folder).id = id /\ FolderMove(id, folder).folder = folder
      /\ FolderMove(id, folder).plan = "keep"
  BY <1>1, NoJobType DEF Jobs, PlaceSet, FolderMove
<1> QED BY <1>1, <1>2 DEF Asked, JobFits, Follows, Plans

LEMMA DeletionAsked ==
  ASSUME NEW tree \in Contents, NEW op, NEW id,
         \/ op = "delete" /\ id \in DOMAIN tree.sessions
         \/ op = "folderDelete" /\ id \in DOMAIN tree.folders
  PROVE  Asked(tree, Deletion(op, id))
<1>1. (op = "delete" /\ id \in Sessions) \/ (op = "folderDelete" /\ id \in Folders)
  BY ContentDomains
<1>2. /\ Deletion(op, id) \in Jobs /\ Deletion(op, id).op = op /\ Deletion(op, id).id = id
      /\ Deletion(op, id).plan = "keep"
  BY <1>1, NoJobType DEF Jobs, PlaceSet, Deletion
<1> QED BY <1>1, <1>2 DEF Asked, JobFits, Follows, Plans

\* What is asked for of an empty tree may be asked for of any.
LEMMA FollowsAny ==
  ASSUME NEW c \in Contents, NEW job, Follows(Empty, job) PROVE Follows(c, job)
<1>1. Places(Empty) = {Root} /\ Root \in Places(c)
  BY EmptyIsContent DEF Places
<1>2. Above(Empty, Root) = {Root} /\ Above(c, Root) = {Root}
  BY EmptyIsContent, NoneAboveRoot
<1> QED BY <1>1, <1>2 DEF Follows

-----------------------------------------------------------------------------
(* Types, and what a window's stage says of it.                            *)

StoreSet == Contents \cup {Nothing}
Stages == {"off", "open", "idle", "secret_get", "mutate", "write", "replace", "forget", "done", "undo"}
WindowSet ==
  [at : Stages, pid : Pids \cup {0}, tree : Contents, job : Jobs, body : Contents,
   flushed : BOOLEAN, migrating : BOOLEAN, previous : SecretSet, tabs : 0 .. 2, hadTabs : BOOLEAN,
   last : 0 .. 3, offer : {"unknown", "yes", "no"}]

\* sessions.toml is never torn: a file is flushed before it takes the name.
FileTypes ==
  /\ sessions \in [seen : StoreSet, safe : StoreSet, flushed : {TRUE}]
  /\ legacy \in StoreSet /\ keychain \in [Sessions -> SecretSet]

Stage(w) ==
  LET at == window[w].at
      job == window[w].job
  IN /\ at \in {"off", "idle"} => job.op = "load"
     /\ job.op = "load" => at \in {"off", "idle", "open", "write", "replace"} /\ job.plan = "keep"
     /\ job.op # "load" => w \in Editors
     /\ job.op = "load" /\ at \in {"write", "replace"} => window[w].migrating
     /\ at \in {"secret_get", "mutate", "undo"} => job.plan # "keep"
     /\ at = "replace" => window[w].flushed
     /\ at = "forget" => job.op = "delete"
     /\ job.plan # "keep" => job.op = "save"
     /\ job.plan = "set" => job.conn.saveSecret
     /\ JobFits(job)
     /\ at = "off" => window[w].tree = Empty

\* Who finds no file but the old one is alone, and moves it.
Alone ==
  sessions.seen = Nothing /\ legacy # Nothing =>
    \A v, w \in Windows : window[v].at # "off" /\ window[w].at # "off" => v = w
Migrates(w) ==
  window[w].migrating =>
    /\ window[w].at \in {"write", "replace"}
    /\ sessions.seen = Nothing /\ legacy # Nothing /\ window[w].body = legacy

FilesInv ==
  /\ window \in [Windows -> WindowSet] /\ FileTypes /\ Alone
  /\ \A w \in Windows : Stage(w) /\ Migrates(w)

-----------------------------------------------------------------------------
(* What is known of a change under way, when one window changes connections. *)

OneEditor == \A v, w \in Editors : v = w

\* What is written is the change of what is found, until it is what is found.
Written(w) ==
  /\ window[w].at \in {"write", "replace"} /\ ~window[w].migrating =>
       /\ sessions.seen # Nothing \/ legacy = Nothing
       /\ window[w].body = Apply(View, window[w].job)
  /\ window[w].at \in {"forget", "done"} => sessions.seen = window[w].body

\* The editor's tree is what is found, or it was never loaded.
TreeIsFound(w) ==
  window[w].at \notin {"forget", "done"} => window[w].tree = Empty \/ window[w].tree = View
ChangeFollows(w) ==
  window[w].at \in {"secret_get", "mutate", "open", "write", "replace"} => Follows(View, window[w].job)

\* The keychain is as before, but for the secret of the connection that is saved.
IsSaved(s) == s \in DOMAIN View.sessions /\ View.sessions[s].saveSecret
OthersBelong(id) == \A s \in Sessions \ {id} : keychain[s] # NoSecret => IsSaved(s)
SecretsFollow(w) ==
  LET at == window[w].at
      job == window[w].job
  IN /\ at \in {"secret_get", "mutate", "done"} => Belong(keychain, View)
     /\ at \in {"open", "write", "replace"} /\ job.plan = "keep" => Belong(keychain, View)
     /\ at \in {"open", "write", "replace", "forget", "undo"} => OthersBelong(job.id)
     /\ at \in {"open", "write", "replace"} /\ job.plan = "delete" => keychain[job.id] = NoSecret
     /\ at \in {"secret_get", "mutate", "open", "write", "replace"} => Plans(job)
     /\ at \in {"mutate", "open", "write", "replace", "undo"} =>
          (window[w].previous # NoSecret => IsSaved(job.id))

Loads == \A w \in Windows : window[w].job.op = "load"

ChangesInv ==
  /\ \A w \in Editors : Written(w) /\ TreeIsFound(w) /\ ChangeFollows(w)
  /\ Rooted(View) /\ Rooted(Found(sessions.safe)) /\ ChangesAreWhole
  /\ kept => (Loads => Belong(keychain, View))
  /\ kept => \A w \in Windows : window[w].job.op # "load" => SecretsFollow(w)

IndInv == FilesInv /\ (OneEditor => ChangesInv)

-----------------------------------------------------------------------------
(* What the steps do to a window.                                          *)

Others(w) ==
  window' \in [Windows -> WindowSet] /\ \A v \in Windows \ {w} : window'[v] = window[v]

\* A change takes nothing from what a window knows but where it stands.
TreeStays(w) == window'[w].tree = window[w].tree
ChangeStays(w) ==
  TreeStays(w) /\ window'[w].job = window[w].job /\ window'[w].previous = window[w].previous
WriteStays(w) ==
  ChangeStays(w) /\ window'[w].body = window[w].body /\ window'[w].migrating = window[w].migrating
  /\ window'[w].flushed = window[w].flushed

LEMMA WindowType ==
  ASSUME window \in [Windows -> WindowSet], NEW w \in Windows
  PROVE  /\ window[w] \in WindowSet /\ window[w].tree \in Contents /\ window[w].body \in Contents
         /\ window[w].job \in Jobs /\ window[w].previous \in SecretSet
         /\ DOMAIN window = Windows
BY DEF WindowSet

LEMMA OffType ==
  /\ Off \in WindowSet /\ Off.at = "off" /\ Off.tree = Empty /\ Off.job = NoJob
  /\ Off.body = Empty /\ Off.migrating = FALSE /\ Off.flushed = FALSE
<1>1. Empty \in Contents /\ NoJob \in Jobs /\ NoSecret \in SecretSet
  BY EmptyIsContent, NoJobType DEF SecretSet
<1> QED BY <1>1 DEF Off, WindowSet, Stages

Resting(w) ==
  /\ window'[w].at = "idle" /\ window'[w].job = NoJob /\ window'[w].migrating = FALSE
  /\ window'[w].flushed = FALSE

LEMMA RestedType ==
  ASSUME window \in [Windows -> WindowSet], NEW w \in Windows
  PROVE  /\ Rested(w) \in WindowSet /\ Rested(w).at = "idle" /\ Rested(w).job = NoJob
         /\ Rested(w).body = Empty /\ Rested(w).migrating = FALSE /\ Rested(w).flushed = FALSE
         /\ Rested(w).tree = window[w].tree
         /\ \A tree \in Contents : /\ [Rested(w) EXCEPT !.tree = tree] \in WindowSet
                                   /\ [Rested(w) EXCEPT !.tree = tree].at = "idle"
                                   /\ [Rested(w) EXCEPT !.tree = tree].job = NoJob
                                   /\ [Rested(w) EXCEPT !.tree = tree].migrating = FALSE
                                   /\ [Rested(w) EXCEPT !.tree = tree].flushed = FALSE
                                   /\ [Rested(w) EXCEPT !.tree = tree].tree = tree
<1>1. Empty \in Contents /\ NoJob \in Jobs /\ NoSecret \in SecretSet /\ window[w] \in WindowSet
  BY EmptyIsContent, NoJobType DEF SecretSet
<1>2. /\ Rested(w) \in WindowSet /\ Rested(w).at = "idle" /\ Rested(w).job = NoJob
      /\ Rested(w).body = Empty /\ Rested(w).migrating = FALSE /\ Rested(w).flushed = FALSE
      /\ Rested(w).tree = window[w].tree
  BY <1>1 DEF Rested, WindowSet, Stages
<1> QED BY <1>2 DEF WindowSet

LEMMA RestsEffect ==
  ASSUME window \in [Windows -> WindowSet], NEW w \in Windows, Rests(w)
  PROVE  Others(w) /\ Resting(w) /\ TreeStays(w)
BY RestedType DEF Rests, Others, Resting, TreeStays

LEMMA EndsEffect ==
  ASSUME window \in [Windows -> WindowSet], NEW w \in Windows, Ends(w)
  PROVE  Others(w) /\ window'[w] = Off
BY OffType DEF Ends, Others

LEMMA GoesEffect ==
  ASSUME window \in [Windows -> WindowSet], NEW w \in Windows, NEW at \in Stages, Goes(w, at)
  PROVE  Others(w) /\ WriteStays(w) /\ window'[w].at = at
BY DEF Goes, Others, WriteStays, ChangeStays, TreeStays, WindowSet

LEMMA GivesUpEffect ==
  ASSUME window \in [Windows -> WindowSet], NEW w \in Windows, GivesUp(w)
  PROVE  /\ Others(w) /\ TreeStays(w)
         /\ window[w].job.plan = "keep" => Resting(w)
         /\ window[w].job.plan # "keep" =>
              /\ window'[w].at = "undo" /\ ChangeStays(w) /\ window'[w].migrating = FALSE
<1>1. CASE window[w].job.plan = "keep"
  <2>1. window' = [window EXCEPT ![w] = Rested(w)]
    BY <1>1 DEF GivesUp
  <2> QED BY <1>1, <2>1, RestedType DEF Others, Resting, TreeStays
<1>2. CASE window[w].job.plan # "keep"
  <2>1. window' = [window EXCEPT ![w].migrating = FALSE, ![w].flushed = FALSE, ![w].body = Empty,
                                 ![w].at = "undo"]
    BY <1>2 DEF GivesUp
  <2> DEFINE given == [window[w] EXCEPT !.migrating = FALSE, !.flushed = FALSE, !.body = Empty,
                                        !.at = "undo"]
  <2>2. window' = [window EXCEPT ![w] = given] /\ window[w] \in WindowSet
    BY <2>1
  <2>3. given \in WindowSet /\ given.at = "undo" /\ given.migrating = FALSE
    BY <2>2, EmptyIsContent DEF WindowSet, Stages
  <2>4. given.tree = window[w].tree /\ given.job = window[w].job
        /\ given.previous = window[w].previous
    BY <2>2 DEF WindowSet
  <2> HIDE DEF given
  <2> QED BY <1>2, <2>2, <2>3, <2>4 DEF Others, TreeStays, ChangeStays
<1> QED BY <1>1, <1>2

LEMMA BeginsEffect ==
  ASSUME window \in [Windows -> WindowSet], NEW w \in Windows, NEW job \in Jobs, Begins(w, job)
  PROVE  /\ Others(w) /\ TreeStays(w) /\ window'[w].job = job /\ window'[w].previous = NoSecret
         /\ window'[w].at \in IF job.plan = "keep" THEN {"open"} ELSE {"secret_get", "mutate"}
         /\ window'[w].migrating = window[w].migrating
<1>1. NoSecret \in SecretSet
  BY DEF SecretSet
<1> DEFINE at == IF job.plan = "keep" THEN "open" ELSE IF job.had THEN "secret_get" ELSE "mutate"
           begun == [window[w] EXCEPT !.job = job, !.previous = NoSecret, !.at = at]
<1>2. window' = [window EXCEPT ![w] = begun] /\ window[w] \in WindowSet
  BY DEF Begins
<1>3. at \in Stages /\ at \in IF job.plan = "keep" THEN {"open"} ELSE {"secret_get", "mutate"}
  BY DEF Stages
<1> HIDE DEF at
<1>4. begun \in WindowSet /\ begun.job = job /\ begun.previous = NoSecret /\ begun.at = at
  BY <1>1, <1>2, <1>3 DEF WindowSet
<1>5. begun.tree = window[w].tree /\ begun.migrating = window[w].migrating
  BY <1>2 DEF WindowSet
<1> HIDE DEF begun
<1> QED BY <1>2, <1>3, <1>4, <1>5 DEF Others, TreeStays

LEMMA BeginEffect ==
  ASSUME window \in [Windows -> WindowSet], NEW w \in Windows, Begin(w)
  PROVE  \E job : Asked(window[w].tree, job) /\ Begins(w, job)
<1> DEFINE tree == window[w].tree
<1>1. tree \in Contents
  BY WindowType
<1>2. Saves(w, tree) \/ Drops(w, tree) \/ FolderMoves(w, tree) \/ Deletions(w, tree)
  BY DEF Begin
<1> SUFFICES \E job : Asked(tree, job) /\ Begins(w, job)
  OBVIOUS
<1> HIDE DEF tree
<1>3. CASE Saves(w, tree)
  <2>1. PICK id \in DOMAIN tree.sessions \cup NewSessions, folder \in Places(tree),
             saved \in BOOLEAN, auth \in Auths, typed \in {NoSecret, "typed"} :
          Begins(w, Save(tree, id, Conn(folder, saved, auth), typed))
    BY <1>3 DEF Saves
  <2> QED BY <1>1, <2>1, SaveAsked
<1>4. CASE Drops(w, tree)
  <2>1. PICK id \in DOMAIN tree.sessions, folder \in Places(tree) : Begins(w, Drop(tree, id, folder))
    BY <1>4 DEF Drops
  <2> QED BY <1>1, <2>1, DropAsked
<1>5. CASE FolderMoves(w, tree)
  <2>1. PICK id \in DOMAIN tree.folders \cup NewFolders, folder \in Places(tree) :
          id \notin Above(tree, folder) /\ Begins(w, FolderMove(id, folder))
    BY <1>5 DEF FolderMoves
  <2> QED BY <1>1, <2>1, FolderMoveAsked
<1>6. CASE Deletions(w, tree)
  <2>1. CASE \E id \in DOMAIN tree.sessions : Begins(w, Deletion("delete", id))
    BY <1>1, <2>1, DeletionAsked
  <2>2. CASE \E id \in DOMAIN tree.folders : Begins(w, Deletion("folderDelete", id))
    BY <1>1, <2>2, DeletionAsked
  <2> QED BY <1>6, <2>1, <2>2 DEF Deletions
<1> QED BY <1>2, <1>3, <1>4, <1>5, <1>6

LEMMA SetsEffect ==
  ASSUME window \in [Windows -> WindowSet], NEW w \in Windows, NEW rec \in WindowSet,
         window' = [window EXCEPT ![w] = rec]
  PROVE  Others(w) /\ window'[w] = rec
BY DEF Others

LEMMA SecretGetEffect ==
  ASSUME window \in [Windows -> WindowSet], NEW w \in Windows, NEW secret \in SecretSet,
         window' = [window EXCEPT ![w].at = "mutate", ![w].previous = secret]
  PROVE  /\ Others(w) /\ TreeStays(w) /\ window'[w].at = "mutate" /\ window'[w].previous = secret
         /\ window'[w].job = window[w].job /\ window'[w].migrating = window[w].migrating
<1> DEFINE rec == [window[w] EXCEPT !.at = "mutate", !.previous = secret]
<1>1. window' = [window EXCEPT ![w] = rec] /\ window[w] \in WindowSet
  OBVIOUS
<1>2. /\ rec \in WindowSet /\ rec.tree = window[w].tree /\ rec.at = "mutate"
      /\ rec.previous = secret /\ rec.job = window[w].job /\ rec.migrating = window[w].migrating
  BY <1>1 DEF WindowSet, Stages
<1> HIDE DEF rec
<1> QED BY <1>1, <1>2, SetsEffect DEF TreeStays

LEMMA OpenMigratesEffect ==
  ASSUME window \in [Windows -> WindowSet], NEW w \in Windows, NEW content \in Contents,
         window' = [window EXCEPT ![w].at = "write", ![w].migrating = TRUE, ![w].body = content]
  PROVE  /\ Others(w) /\ ChangeStays(w) /\ window'[w].at = "write" /\ window'[w].migrating = TRUE
         /\ window'[w].body = content
<1> DEFINE rec == [window[w] EXCEPT !.at = "write", !.migrating = TRUE, !.body = content]
<1>1. window' = [window EXCEPT ![w] = rec] /\ window[w] \in WindowSet
  OBVIOUS
<1>2. /\ rec \in WindowSet /\ rec.tree = window[w].tree /\ rec.at = "write" /\ rec.body = content
      /\ rec.previous = window[w].previous /\ rec.job = window[w].job /\ rec.migrating = TRUE
  BY <1>1 DEF WindowSet, Stages
<1> HIDE DEF rec
<1> QED BY <1>1, <1>2, SetsEffect DEF TreeStays, ChangeStays

LEMMA OpenWritesEffect ==
  ASSUME window \in [Windows -> WindowSet], NEW w \in Windows, NEW content \in Contents,
         window' = [window EXCEPT ![w].at = "write", ![w].body = content]
  PROVE  /\ Others(w) /\ ChangeStays(w) /\ window'[w].at = "write" /\ window'[w].body = content
         /\ window'[w].migrating = window[w].migrating
<1> DEFINE rec == [window[w] EXCEPT !.at = "write", !.body = content]
<1>1. window' = [window EXCEPT ![w] = rec] /\ window[w] \in WindowSet
  OBVIOUS
<1>2. /\ rec \in WindowSet /\ rec.tree = window[w].tree /\ rec.at = "write" /\ rec.body = content
      /\ rec.previous = window[w].previous /\ rec.job = window[w].job
      /\ rec.migrating = window[w].migrating
  BY <1>1 DEF WindowSet, Stages
<1> HIDE DEF rec
<1> QED BY <1>1, <1>2, SetsEffect DEF TreeStays, ChangeStays

\* A content read: shown by a load, and when a change is done.
LEMMA ShowsEffect ==
  ASSUME window \in [Windows -> WindowSet], NEW w \in Windows, NEW content \in Contents,
         window' = [window EXCEPT ![w] = [Rested(w) EXCEPT !.tree = content]]
  PROVE  Others(w) /\ Resting(w) /\ window'[w].tree = content
<1> DEFINE rec == [Rested(w) EXCEPT !.tree = content]
<1>1. /\ rec \in WindowSet /\ rec.at = "idle" /\ rec.job = NoJob /\ rec.migrating = FALSE
      /\ rec.flushed = FALSE /\ rec.tree = content
  BY RestedType
<1> HIDE DEF rec
<1> QED BY <1>1, SetsEffect DEF Resting, rec

LEMMA WriteTempEffect ==
  ASSUME window \in [Windows -> WindowSet], NEW w \in Windows,
         window' = [window EXCEPT ![w].at = "replace", ![w].flushed = TRUE]
  PROVE  /\ Others(w) /\ ChangeStays(w) /\ window'[w].at = "replace" /\ window'[w].flushed = TRUE
         /\ window'[w].body = window[w].body /\ window'[w].migrating = window[w].migrating
<1> DEFINE rec == [window[w] EXCEPT !.at = "replace", !.flushed = TRUE]
<1>1. window' = [window EXCEPT ![w] = rec] /\ window[w] \in WindowSet
  OBVIOUS
<1>2. /\ rec \in WindowSet /\ rec.tree = window[w].tree /\ rec.at = "replace" /\ rec.flushed = TRUE
      /\ rec.previous = window[w].previous /\ rec.job = window[w].job
      /\ rec.migrating = window[w].migrating /\ rec.body = window[w].body
  BY <1>1 DEF WindowSet, Stages
<1> HIDE DEF rec
<1> QED BY <1>1, <1>2, SetsEffect DEF TreeStays, ChangeStays

LEMMA ReplacesEffect ==
  ASSUME window \in [Windows -> WindowSet], NEW w \in Windows, NEW at \in Stages,
         window' = [window EXCEPT ![w].migrating = FALSE, ![w].flushed = FALSE, ![w].at = at]
  PROVE  /\ Others(w) /\ ChangeStays(w) /\ window'[w].at = at /\ window'[w].migrating = FALSE
         /\ window'[w].body = window[w].body
<1> DEFINE rec == [window[w] EXCEPT !.migrating = FALSE, !.flushed = FALSE, !.at = at]
<1>1. window' = [window EXCEPT ![w] = rec] /\ window[w] \in WindowSet
  OBVIOUS
<1>2. /\ rec \in WindowSet /\ rec.tree = window[w].tree /\ rec.at = at
      /\ rec.previous = window[w].previous /\ rec.job = window[w].job
      /\ rec.migrating = FALSE /\ rec.body = window[w].body
  BY <1>1 DEF WindowSet
<1> HIDE DEF rec
<1> QED BY <1>1, <1>2, SetsEffect DEF TreeStays, ChangeStays

\* The tabs are none of the change's business.
TabsOf(w) ==
  Others(w) /\ WriteStays(w) /\ window'[w].at = window[w].at

LEMMA OfferEffect ==
  ASSUME window \in [Windows -> WindowSet], NEW w \in Windows, OfferRestore(w) PROVE TabsOf(w)
<1> DEFINE offer == IF snapshot.taken /\ snapshot.tabs # 0 /\ ~Live(w) THEN "yes" ELSE "no"
           rec == [window[w] EXCEPT !.offer = offer]
<1>1. window' = [window EXCEPT ![w] = rec] /\ window[w] \in WindowSet /\ offer \in {"yes", "no"}
  BY DEF OfferRestore
<1> HIDE DEF offer
<1>2. /\ rec \in WindowSet /\ rec.tree = window[w].tree /\ rec.at = window[w].at
      /\ rec.previous = window[w].previous /\ rec.job = window[w].job
      /\ rec.migrating = window[w].migrating /\ rec.body = window[w].body
      /\ rec.flushed = window[w].flushed
  BY <1>1 DEF WindowSet
<1> HIDE DEF rec
<1> QED BY <1>1, <1>2, SetsEffect DEF TreeStays, ChangeStays, WriteStays, TabsOf

LEMMA ChangeTabsEffect ==
  ASSUME window \in [Windows -> WindowSet], NEW w \in Windows, ChangeTabs(w) PROVE TabsOf(w)
<1>0. PICK tabs \in 0 .. 2 : window' = [window EXCEPT ![w].tabs = tabs]
  BY DEF ChangeTabs
<1> DEFINE rec == [window[w] EXCEPT !.tabs = tabs]
<1>1. window' = [window EXCEPT ![w] = rec] /\ window[w] \in WindowSet
  BY <1>0
<1>2. /\ rec \in WindowSet /\ rec.tree = window[w].tree /\ rec.at = window[w].at
      /\ rec.previous = window[w].previous /\ rec.job = window[w].job
      /\ rec.migrating = window[w].migrating /\ rec.body = window[w].body
      /\ rec.flushed = window[w].flushed
  BY <1>1 DEF WindowSet
<1> HIDE DEF rec
<1> QED BY <1>1, <1>2, SetsEffect DEF TreeStays, ChangeStays, WriteStays, TabsOf

LEMMA TakesEffect ==
  ASSUME window \in [Windows -> WindowSet], NEW w \in Windows, TakeSnapshot(w) PROVE TabsOf(w)
<1>0. PICK last \in 0 .. 3 : window' = [window EXCEPT ![w] = [window[w] EXCEPT !.hadTabs = TRUE, !.last = last]]
  <2>1. window[w] \in WindowSet
    OBVIOUS
  <2>2. CASE window' = [window EXCEPT ![w].hadTabs = TRUE, ![w].last = window[w].tabs + 1]
    <3>1. window[w].tabs + 1 \in 0 .. 3
      BY <2>1 DEF WindowSet
    <3> QED BY <2>2, <3>1
  <2>3. CASE window' = [window EXCEPT ![w].hadTabs = TRUE]
    <3>1. window[w].last \in 0 .. 3
      BY <2>1 DEF WindowSet
    <3>2. [window[w] EXCEPT !.hadTabs = TRUE, !.last = window[w].last] = [window[w] EXCEPT !.hadTabs = TRUE]
      BY <2>1 DEF WindowSet
    <3> QED BY <2>3, <3>1, <3>2
  <2> QED BY <2>2, <2>3 DEF TakeSnapshot
<1> DEFINE rec == [window[w] EXCEPT !.hadTabs = TRUE, !.last = last]
<1>1. window' = [window EXCEPT ![w] = rec] /\ window[w] \in WindowSet
  BY <1>0
<1>2. /\ rec \in WindowSet /\ rec.tree = window[w].tree /\ rec.at = window[w].at
      /\ rec.previous = window[w].previous /\ rec.job = window[w].job
      /\ rec.migrating = window[w].migrating /\ rec.body = window[w].body
      /\ rec.flushed = window[w].flushed
  BY <1>1 DEF WindowSet
<1> HIDE DEF rec
<1> QED BY <1>1, <1>2, SetsEffect DEF TreeStays, ChangeStays, WriteStays, TabsOf

-----------------------------------------------------------------------------
(* The files: what every step keeps, whoever changes connections.          *)

LEMMA FilesStep ==
  ASSUME FilesInv, NEW w \in Windows, Others(w), FileTypes', sessions'.seen = sessions.seen,
         legacy' = legacy, window'[w].at # "off" => window[w].at # "off", Stage(w)', Migrates(w)'
  PROVE  FilesInv'
<1>1. ASSUME NEW v \in Windows PROVE Stage(v)' /\ Migrates(v)'
  <2>1. CASE v = w
    BY <2>1
  <2>2. CASE v # w
    <3>1. window'[v] = window[v]
      BY <2>2 DEF Others
    <3>2. Stage(v) /\ Migrates(v)
      BY DEF FilesInv
    <3> QED BY <3>1, <3>2 DEF Stage, Migrates
  <2> QED BY <2>1, <2>2
<1>2. Alone'
  BY DEF FilesInv, Alone, Others
<1> QED BY <1>1, <1>2 DEF FilesInv, Others

LEMMA OffFiles ==
  ASSUME NEW w \in Windows, window'[w] = Off PROVE Stage(w)' /\ Migrates(w)'
BY OffType, NoJobType DEF Stage, Migrates

LEMMA RestingFiles ==
  ASSUME FilesInv, NEW w \in Windows, Others(w), Resting(w), window[w].at # "off", FileTypes',
         sessions'.seen = sessions.seen, legacy' = legacy
  PROVE  FilesInv'
<1>1. Stage(w)' /\ Migrates(w)'
  BY NoJobType DEF Stage, Migrates, Resting
<1> QED BY <1>1, FilesStep

LEMMA GivesUpFiles ==
  ASSUME FilesInv, NEW w \in Windows, GivesUp(w), window[w].at # "off",
         UNCHANGED <<sessions, legacy, keychain>>
  PROVE  FilesInv'
<1>1. Others(w) /\ FileTypes'
  BY GivesUpEffect DEF FilesInv, FileTypes
<1>2. CASE window[w].job.plan = "keep"
  BY <1>1, <1>2, GivesUpEffect, RestingFiles DEF FilesInv
<1>3. CASE window[w].job.plan # "keep"
  <2>1. window'[w].at = "undo" /\ window'[w].job = window[w].job /\ window'[w].migrating = FALSE
    BY <1>3, GivesUpEffect DEF FilesInv, ChangeStays
  <2>2. Stage(w)
    BY DEF FilesInv
  <2>3. Stage(w)' /\ Migrates(w)'
    BY <1>3, <2>1, <2>2 DEF Stage, Migrates
  <2> QED BY <1>1, <2>3, FilesStep
<1> QED BY <1>2, <1>3

LEMMA TabsFiles ==
  ASSUME FilesInv, NEW w \in Windows, TabsOf(w), UNCHANGED <<sessions, legacy, keychain>>
  PROVE  FilesInv'
<1>1. Stage(w) /\ Migrates(w) /\ FileTypes
  BY DEF FilesInv
<1>2. Stage(w)' /\ Migrates(w)' /\ FileTypes'
  BY <1>1 DEF TabsOf, WriteStays, ChangeStays, TreeStays, Stage, Migrates, FileTypes
<1> QED BY <1>2, FilesStep DEF TabsOf

LEMMA EndsFiles ==
  ASSUME FilesInv, NEW w \in Windows, Ends(w), UNCHANGED <<sessions, legacy, keychain>>
  PROVE  FilesInv'
<1>1. Others(w) /\ window'[w] = Off /\ FileTypes'
  BY EndsEffect DEF FilesInv, FileTypes
<1> QED BY <1>1, OffFiles, OffType, FilesStep

LEMMA StartFiles ==
  ASSUME FilesInv, NEW w \in Windows, NEW pid \in Pids, Start(w, pid) PROVE FilesInv'
<1> DEFINE rec == [Off EXCEPT !.at = "open", !.pid = pid]
<1>1. /\ rec \in WindowSet /\ rec.at = "open" /\ rec.job = NoJob /\ rec.migrating = FALSE
      /\ rec.tree = Empty
  BY OffType DEF WindowSet, Stages
<1>2. window' = [window EXCEPT ![w] = rec]
  BY DEF Start
<1> HIDE DEF rec
<1>3. Others(w) /\ window'[w] = rec
  BY <1>1, <1>2, SetsEffect DEF FilesInv
<1>4. Stage(w)' /\ Migrates(w)'
  BY <1>1, <1>3, NoJobType DEF Stage, Migrates
<1>5. ASSUME NEW v \in Windows \ {w} PROVE Stage(v)' /\ Migrates(v)'
  <2>1. window'[v] = window[v] /\ Stage(v) /\ Migrates(v) /\ UNCHANGED <<sessions, legacy>>
    BY <1>3 DEF Others, FilesInv, Start
  <2> QED BY <2>1 DEF Stage, Migrates
<1>6. Alone'
  BY <1>3 DEF Alone, Others, Start
<1>7. FileTypes'
  BY DEF FilesInv, FileTypes, Start
<1> QED BY <1>3, <1>4, <1>5, <1>6, <1>7 DEF FilesInv, Others

LEMMA PowerLossFiles == ASSUME FilesInv, PowerLoss PROVE FilesInv'
<1>1. sessions \in [seen : StoreSet, safe : StoreSet, flushed : {TRUE}]
  BY DEF FilesInv, FileTypes
<1>2. PICK found \in {sessions.safe, IF sessions.flushed THEN sessions.seen ELSE Torn} :
        sessions' = [seen |-> found, safe |-> found, flushed |-> TRUE]
  BY DEF PowerLoss
<1>3. found \in StoreSet
  BY <1>1, <1>2
<1>4. FileTypes'
  BY <1>2, <1>3 DEF FilesInv, FileTypes, PowerLoss
<1>5. window' \in [Windows -> WindowSet] /\ \A w \in Windows : window'[w] = Off
  BY OffType DEF PowerLoss
<1>6. Alone'
  BY <1>5, OffType DEF Alone
<1> QED BY <1>4, <1>5, <1>6, OffFiles DEF FilesInv

LEMMA BeginFiles == ASSUME FilesInv, NEW w \in Windows, Begin(w) PROVE FilesInv'
<1>1. PICK job : Asked(window[w].tree, job) /\ Begins(w, job)
  BY BeginEffect DEF FilesInv
<1>2. /\ job \in Jobs /\ JobFits(job) /\ job.op # "load" /\ Plans(job)
  BY <1>1 DEF Asked
<1>3. /\ Others(w) /\ window'[w].job = job /\ window'[w].migrating = window[w].migrating
      /\ window'[w].at \in IF job.plan = "keep" THEN {"open"} ELSE {"secret_get", "mutate"}
  BY <1>1, <1>2, BeginsEffect DEF FilesInv
<1>4. window[w].at = "idle" /\ w \in Editors /\ Migrates(w)
  BY DEF Begin, FilesInv
<1>5. Stage(w)' /\ Migrates(w)'
  BY <1>2, <1>3, <1>4 DEF Stage, Migrates, Plans
<1>6. FileTypes' /\ UNCHANGED <<sessions, legacy>>
  BY DEF FilesInv, FileTypes, Begin
<1> QED BY <1>3, <1>4, <1>5, <1>6, FilesStep

LEMMA MutationId ==
  ASSUME FilesInv, NEW w \in Windows, window[w].job.plan # "keep"
  PROVE  window[w].job.id \in Sessions /\ window[w].job.op = "save"
BY DEF FilesInv, Stage, JobFits

LEMMA SecretGetFiles == ASSUME FilesInv, NEW w \in Windows, SecretGet(w) PROVE FilesInv'
<1>1. window[w].at = "secret_get" /\ UNCHANGED <<sessions, legacy, keychain>> /\ FileTypes'
  BY DEF SecretGet, FilesInv, FileTypes
<1>2. Stage(w) /\ Migrates(w) /\ window[w].job.plan # "keep"
  BY <1>1 DEF FilesInv, Stage
<1>3. CASE Rests(w)
  BY <1>1, <1>3, RestsEffect, RestingFiles DEF FilesInv
<1>4. CASE window' = [window EXCEPT ![w].at = "mutate", ![w].previous = keychain[window[w].job.id]]
  <2>1. keychain[window[w].job.id] \in SecretSet
    BY <1>2, MutationId DEF FilesInv, FileTypes
  <2>2. /\ Others(w) /\ window'[w].at = "mutate" /\ window'[w].job = window[w].job
        /\ window'[w].migrating = window[w].migrating
    BY <1>4, <2>1, SecretGetEffect DEF FilesInv
  <2>3. Stage(w)' /\ Migrates(w)'
    BY <1>1, <1>2, <2>2 DEF Stage, Migrates
  <2> QED BY <1>1, <2>2, <2>3, FilesStep
<1> QED BY <1>3, <1>4 DEF SecretGet

LEMMA MutateFiles == ASSUME FilesInv, NEW w \in Windows, ApplySecretMutation(w) PROVE FilesInv'
<1>1. window[w].at = "mutate" /\ UNCHANGED <<sessions, legacy>>
  BY DEF ApplySecretMutation
<1>2. Stage(w) /\ Migrates(w) /\ window[w].job \in Jobs
  BY WindowType DEF FilesInv
<1>3. CASE Rests(w) /\ UNCHANGED keychain
  <2>1. FileTypes'
    BY <1>1, <1>3 DEF FilesInv, FileTypes
  <2> QED BY <1>1, <1>3, <2>1, RestsEffect, RestingFiles DEF FilesInv
<1>4. CASE /\ keychain' = [keychain EXCEPT ![window[w].job.id] =
                             IF window[w].job.plan = "set" THEN window[w].job.typed ELSE NoSecret]
           /\ Goes(w, "open")
  <2>1. window[w].job.typed \in SecretSet /\ NoSecret \in SecretSet
    BY <1>2 DEF Jobs, SecretSet
  <2>2. FileTypes'
    BY <1>1, <1>4, <2>1 DEF FilesInv, FileTypes
  <2>3. /\ Others(w) /\ window'[w].at = "open" /\ WriteStays(w)
    BY <1>4, GoesEffect DEF FilesInv, Stages
  <2>4. Stage(w)' /\ Migrates(w)'
    BY <1>1, <1>2, <2>3 DEF Stage, Migrates, WriteStays, ChangeStays, TreeStays
  <2> QED BY <1>1, <2>2, <2>3, <2>4, FilesStep
<1> QED BY <1>3, <1>4 DEF ApplySecretMutation

LEMMA OpenFiles == ASSUME FilesInv, NEW w \in Windows, Open(w) PROVE FilesInv'
<1>1. window[w].at = "open" /\ UNCHANGED <<sessions, legacy, keychain>> /\ FileTypes'
  BY DEF Open, FilesInv, FileTypes
<1>2. Stage(w) /\ Migrates(w) /\ window[w].job \in Jobs /\ ~window[w].migrating
  BY <1>1, WindowType DEF FilesInv, Migrates, WindowSet
<1>3. /\ sessions.seen \in StoreSet /\ legacy \in StoreSet /\ Parsed(sessions.seen) \in Contents
  BY ParsedIsContent DEF FilesInv, FileTypes, StoreSet
<1>4. CASE /\ sessions.seen = Nothing /\ legacy # Nothing
           /\ window' = [window EXCEPT ![w].at = "write", ![w].migrating = TRUE, ![w].body = legacy]
  <2>1. legacy \in Contents
    BY <1>3, <1>4 DEF StoreSet
  <2>2. /\ Others(w) /\ ChangeStays(w) /\ window'[w].at = "write" /\ window'[w].body = legacy
    BY <1>4, <2>1, OpenMigratesEffect DEF FilesInv
  <2>3. window'[w].migrating = TRUE
    BY <1>4, <2>1, OpenMigratesEffect DEF FilesInv
  <2>4. Stage(w)' /\ Migrates(w)'
    BY <1>1, <1>2, <1>4, <2>2, <2>3 DEF Stage, Migrates, ChangeStays, TreeStays
  <2> QED BY <1>1, <2>2, <2>4, FilesStep
<1>5. CASE window' = [window EXCEPT ![w] = [Rested(w) EXCEPT !.tree = Parsed(sessions.seen)]]
  BY <1>1, <1>3, <1>5, ShowsEffect, RestingFiles DEF FilesInv
<1>6. CASE /\ window[w].job.op # "load"
           /\ window' = [window EXCEPT ![w].at = "write",
                                       ![w].body = Apply(Parsed(sessions.seen), window[w].job)]
  <2>1. Apply(Parsed(sessions.seen), window[w].job) \in Contents
    BY <1>2, <1>3, ApplyType DEF Stage
  <2>2. /\ Others(w) /\ ChangeStays(w) /\ window'[w].at = "write"
        /\ window'[w].migrating = window[w].migrating
    BY <1>6, <2>1, OpenWritesEffect DEF FilesInv
  <2>4. Stage(w)' /\ Migrates(w)'
    BY <1>1, <1>2, <1>6, <2>2 DEF Stage, Migrates, ChangeStays, TreeStays
  <2> QED BY <1>1, <2>2, <2>4, FilesStep
<1>7. CASE GivesUp(w)
  BY <1>1, <1>7, GivesUpFiles
<1> QED BY <1>4, <1>5, <1>6, <1>7 DEF Open

LEMMA WriteTempFiles == ASSUME FilesInv, NEW w \in Windows, WriteTemp(w) PROVE FilesInv'
<1>1. window[w].at = "write" /\ UNCHANGED <<sessions, legacy, keychain>> /\ FileTypes'
  BY DEF WriteTemp, FilesInv, FileTypes
<1>2. Stage(w) /\ Migrates(w)
  BY DEF FilesInv
<1>3. CASE window' = [window EXCEPT ![w].at = "replace", ![w].flushed = TRUE]
  <2>1. /\ Others(w) /\ ChangeStays(w) /\ window'[w].at = "replace" /\ window'[w].flushed = TRUE
        /\ window'[w].body = window[w].body /\ window'[w].migrating = window[w].migrating
    BY <1>3, WriteTempEffect DEF FilesInv
  <2>2. Stage(w)' /\ Migrates(w)'
    BY <1>1, <1>2, <2>1 DEF Stage, Migrates, ChangeStays, TreeStays
  <2> QED BY <1>1, <2>1, <2>2, FilesStep
<1> QED BY <1>1, <1>3, GivesUpFiles DEF WriteTemp

\* What takes the name is what this window wrote, and nobody else is about to.
LEMMA ReplaceFiles == ASSUME FilesInv, NEW w \in Windows, ReplaceFile(w) PROVE FilesInv'
<1>1. window[w].at = "replace" /\ UNCHANGED <<legacy, keychain>>
  BY DEF ReplaceFile
<1>2. /\ Stage(w) /\ window[w].flushed = TRUE /\ window[w].body \in Contents
      /\ window[w].body # Nothing
  BY <1>1, WindowType, NothingIsNone DEF FilesInv, Stage, WindowSet
<1>3. CASE GivesUp(w) /\ UNCHANGED sessions
  BY <1>1, <1>3, GivesUpFiles
<1> DEFINE at == IF window[w].migrating THEN "open"
                 ELSE IF window[w].job.op = "delete" THEN "forget" ELSE "done"
<1>4. CASE /\ sessions' = [sessions EXCEPT !.seen = window[w].body, !.flushed = window[w].flushed]
           /\ window' = [window EXCEPT ![w].migrating = FALSE, ![w].flushed = FALSE, ![w].at = at]
  <2>1. at \in Stages
    BY DEF Stages
  <2>2. /\ Others(w) /\ ChangeStays(w) /\ window'[w].at = at /\ window'[w].migrating = FALSE
    <3> HIDE DEF at
    <3> QED BY <1>4, <2>1, ReplacesEffect DEF FilesInv
  <2>3. sessions'.seen = window[w].body /\ FileTypes'
    BY <1>1, <1>2, <1>4 DEF FilesInv, FileTypes, StoreSet
  <2>4. Stage(w)' /\ Migrates(w)'
    BY <1>1, <1>2, <2>2 DEF Stage, Migrates, ChangeStays, TreeStays
  <2>5. Alone'
    BY <1>2, <2>3 DEF Alone
  <2>6. ASSUME NEW v \in Windows \ {w} PROVE Stage(v)' /\ Migrates(v)'
    <3>1. window'[v] = window[v] /\ Stage(v) /\ Migrates(v) /\ Alone
      BY <2>2 DEF Others, FilesInv
    <3>2. ~window[v].migrating
      BY <1>1, <3>1 DEF Migrates, Alone
    <3> QED BY <3>1, <3>2 DEF Stage, Migrates
  <2> QED BY <2>2, <2>3, <2>4, <2>5, <2>6 DEF FilesInv, Others
<1> QED BY <1>3, <1>4 DEF ReplaceFile

LEMMA ForgetFiles == ASSUME FilesInv, NEW w \in Windows, Forget(w) PROVE FilesInv'
<1>1. window[w].at = "forget" /\ UNCHANGED <<sessions, legacy>> /\ Goes(w, "done")
  BY DEF Forget
<1>2. Stage(w) /\ Migrates(w)
  BY DEF FilesInv
<1>3. FileTypes'
  <2>1. NoSecret \in SecretSet
    BY DEF SecretSet
  <2> QED BY <1>1, <2>1 DEF Forget, FilesInv, FileTypes
<1>4. Others(w) /\ WriteStays(w) /\ window'[w].at = "done"
  BY <1>1, GoesEffect DEF FilesInv, Stages
<1>5. Stage(w)' /\ Migrates(w)'
  BY <1>1, <1>2, <1>4 DEF Stage, Migrates, WriteStays, ChangeStays, TreeStays
<1> QED BY <1>1, <1>3, <1>4, <1>5, FilesStep

LEMMA DoneFiles == ASSUME FilesInv, NEW w \in Windows, Done(w) PROVE FilesInv'
<1>1. window[w].at = "done" /\ UNCHANGED <<sessions, legacy, keychain>> /\ FileTypes'
  BY DEF Done, FilesInv, FileTypes
<1>2. Parsed(sessions.seen) \in Contents
  BY ParsedIsContent DEF FilesInv, FileTypes, StoreSet
<1>3. Others(w) /\ Resting(w)
  BY <1>2, ShowsEffect DEF FilesInv, Done
<1> QED BY <1>1, <1>3, RestingFiles

LEMMA UndoFiles == ASSUME FilesInv, NEW w \in Windows, Undo(w) PROVE FilesInv'
<1>1. window[w].at = "undo" /\ UNCHANGED <<sessions, legacy>> /\ Others(w) /\ Resting(w)
  BY RestsEffect DEF Undo, FilesInv
<1>2. FileTypes'
  <2>1. window[w].previous \in SecretSet
    BY WindowType DEF FilesInv
  <2> QED BY <1>1, <2>1 DEF Undo, FilesInv, FileTypes
<1> QED BY <1>1, <1>2, RestingFiles

LEMMA Begun ==
  ASSUME Init
  PROVE  \E start \in Beginnings :
           /\ sessions = [seen |-> start.current, safe |-> start.current, flushed |-> TRUE]
           /\ legacy = start.legacy /\ keychain = start.keychain /\ expected = Expect(View)
           /\ {start.current, start.legacy} \subseteq StoreSet
           /\ start.keychain \in [Sessions -> {NoSecret, "first"}]
           /\ AllShown(View) /\ Belong(keychain, View)
<1>1. PICK start \in Beginnings :
        /\ sessions = [seen |-> start.current, safe |-> start.current, flushed |-> TRUE]
        /\ legacy = start.legacy /\ keychain = start.keychain
        /\ expected = Expect(IF start.current = Nothing THEN Parsed(start.legacy) ELSE start.current)
  BY DEF Init
<1>2. View = IF start.current = Nothing THEN Parsed(start.legacy) ELSE start.current
  BY <1>1 DEF View, Found
<1>3. /\ {start.current, start.legacy} \subseteq StoreSet
      /\ start.keychain \in [Sessions -> {NoSecret, "first"}]
      /\ AllShown(View) /\ Belong(start.keychain, View)
  BY <1>2, SavedAssumption DEF StoreSet
<1> QED BY <1>1, <1>2, <1>3

LEMMA FilesInit == Init => FilesInv
<1> SUFFICES ASSUME Init PROVE FilesInv
  OBVIOUS
<1>1. PICK start \in Beginnings :
           /\ sessions = [seen |-> start.current, safe |-> start.current, flushed |-> TRUE]
           /\ legacy = start.legacy /\ keychain = start.keychain
           /\ {start.current, start.legacy} \subseteq StoreSet
           /\ start.keychain \in [Sessions -> {NoSecret, "first"}]
  BY Begun
<1>2. FileTypes
  BY <1>1 DEF FileTypes, SecretSet
<1>3. window \in [Windows -> WindowSet] /\ \A w \in Windows : window[w] = Off
  BY OffType DEF Init
<1>4. \A w \in Windows : Stage(w) /\ Migrates(w)
  BY <1>3, OffType, NoJobType DEF Stage, Migrates
<1>5. Alone
  BY <1>3, OffType DEF Alone
<1> QED BY <1>2, <1>3, <1>4, <1>5 DEF FilesInv

LEMMA FilesUnchanged ==
  ASSUME FilesInv, UNCHANGED <<window, legacy, keychain>>, sessions'.seen = sessions.seen,
         sessions' \in [seen : StoreSet, safe : StoreSet, flushed : {TRUE}]
  PROVE  FilesInv'
<1>1. \A w \in Windows : Stage(w) /\ Migrates(w)
  BY DEF FilesInv
<1>2. \A w \in Windows : Stage(w)' /\ Migrates(w)'
  BY <1>1 DEF Stage, Migrates
<1>3. Alone'
  BY DEF FilesInv, Alone
<1> QED BY <1>2, <1>3 DEF FilesInv, FileTypes

LEMMA FlushEffect ==
  ASSUME FilesInv, Flush
  PROVE  /\ UNCHANGED <<window, legacy, keychain>> /\ sessions'.seen = sessions.seen
         /\ sessions' \in [seen : StoreSet, safe : StoreSet, flushed : {TRUE}]
BY DEF FilesInv, FileTypes, Flush

LEMMA FilesNext == ASSUME FilesInv, [Next]_vars PROVE FilesInv'
<1>1. sessions \in [seen : StoreSet, safe : StoreSet, flushed : {TRUE}]
  BY DEF FilesInv, FileTypes
<1>2. CASE UNCHANGED vars
  BY <1>1, <1>2, FilesUnchanged DEF vars
<1>3. CASE Tick
  BY <1>1, <1>3, FilesUnchanged DEF Tick
<1>4. CASE PowerLoss
  BY <1>4, PowerLossFiles
<1>5. CASE Flush
  BY <1>5, FlushEffect, FilesUnchanged
<1>6. ASSUME NEW pid \in Pids, OtherProcess(pid) PROVE FilesInv'
  BY <1>1, <1>6, FilesUnchanged DEF OtherProcess
<1>7. ASSUME NEW pid \in Pids, NEW w \in Windows, Start(w, pid) PROVE FilesInv'
  BY <1>7, StartFiles
<1>8. ASSUME NEW w \in Windows, Kill(w) PROVE FilesInv'
  BY <1>8, EndsFiles DEF Kill
<1>9. ASSUME NEW w \in Windows, Close(w) PROVE FilesInv'
  BY <1>9, EndsFiles DEF Close
<1>10. ASSUME NEW w \in Windows, OfferRestore(w) PROVE FilesInv'
  BY <1>10, OfferEffect, TabsFiles DEF OfferRestore, FilesInv
<1>11. ASSUME NEW w \in Windows, ChangeTabs(w) PROVE FilesInv'
  BY <1>11, ChangeTabsEffect, TabsFiles DEF ChangeTabs, FilesInv
<1>12. ASSUME NEW w \in Windows, TakeSnapshot(w) PROVE FilesInv'
  BY <1>12, TakesEffect, TabsFiles DEF TakeSnapshot, FilesInv
<1> QED
  BY <1>2, <1>3, <1>4, <1>5, <1>6, <1>7, <1>8, <1>9, <1>10, <1>11, <1>12, BeginFiles, SecretGetFiles,
     MutateFiles, OpenFiles, WriteTempFiles, ReplaceFiles, ForgetFiles, DoneFiles, UndoFiles
  DEF Next

THEOREM FilesInvariant == Spec => []FilesInv
BY FilesInit, FilesNext, PTL DEF Spec

\* Whatever is killed, fails or loses power, what is found is a content read_store
\* can read: never a file half written, though windows write at the same time.
THEOREM FileIsWhole == Spec => [](View \in Contents)
<1>1. FilesInv => View \in Contents
  BY ParsedIsContent DEF FilesInv, FileTypes, StoreSet, View, Found
<1> QED BY <1>1, FilesInvariant, PTL

-----------------------------------------------------------------------------
(* The changes, when one window changes connections.                       *)

LEMMA ViewParts ==
  ASSUME FilesInv
  PROVE  /\ View \in Contents /\ Found(sessions.safe) \in Contents
         /\ sessions.seen # Nothing => View = sessions.seen
         /\ sessions.seen = Nothing => View = Parsed(legacy)
         /\ sessions.seen # Nothing \/ legacy = Nothing => View = Parsed(sessions.seen)
BY ParsedIsContent DEF FilesInv, FileTypes, StoreSet, View, Found

\* One window at most has a change under way.
LEMMA OneChanges ==
  ASSUME OneEditor, FilesInv, NEW v \in Windows, NEW w \in Windows,
         window[v].job.op # "load", window[w].job.op # "load"
  PROVE  v = w
BY DEF OneEditor, FilesInv, Stage

LEMMA WholeStays ==
  ASSUME ChangesAreWhole, NEW w \in Windows, Others(w), View' = View,
         expected.last \subseteq expected'.last, expected.older \subseteq expected'.older,
         window[w].at \in {"forget", "done"} =>
           \/ window[w].body \in expected'.last
           \/ window'[w].at \in {"forget", "done"} /\ window'[w].body = window[w].body
  PROVE  ChangesAreWhole'
<1>1. CASE View \in expected.last \cup expected.older
  BY <1>1 DEF ChangesAreWhole, LastChanges
<1>2. ASSUME NEW v \in Windows, window[v].at \in {"forget", "done"}, View = window[v].body
      PROVE  ChangesAreWhole'
  BY <1>2 DEF ChangesAreWhole, LastChanges, Others
<1> QED BY <1>1, <1>2 DEF ChangesAreWhole, LastChanges

LEMMA ChangesStep ==
  ASSUME OneEditor, FilesInv, ChangesInv, NEW w \in Windows, Others(w), View' = View,
         Found(sessions.safe)' = Found(sessions.safe),
         \/ sessions'.seen = sessions.seen /\ legacy' = legacy
         \/ \A v \in Windows \ {w} : window[v].at = "off",
         UNCHANGED keychain \/ window[w].job.op # "load", kept' => kept,
         w \in Editors => Written(w)' /\ TreeIsFound(w)' /\ ChangeFollows(w)', ChangesAreWhole',
         kept' /\ window'[w].job.op # "load" => SecretsFollow(w)',
         kept' /\ window'[w].job.op = "load" => window[w].job.op = "load" \/ Belong(keychain, View)'
  PROVE  ChangesInv'
<1>1. ASSUME NEW v \in Editors PROVE Written(v)' /\ TreeIsFound(v)' /\ ChangeFollows(v)'
  <2>1. CASE v = w
    BY <2>1
  <2>2. CASE v # w
    <3>1. v \in Windows /\ window'[v] = window[v]
      BY <2>2, SavedAssumption DEF Others
    <3>2. Written(v) /\ TreeIsFound(v) /\ ChangeFollows(v)
      BY DEF ChangesInv
    <3>3. Written(v)'
      BY <2>2, <3>1, <3>2 DEF Written
    <3> QED BY <3>1, <3>2, <3>3 DEF TreeIsFound, ChangeFollows
  <2> QED BY <2>1, <2>2
<1>2. Rooted(View)' /\ Rooted(Found(sessions.safe))'
  BY DEF ChangesInv
<1>3. ASSUME kept', NEW v \in Windows, window'[v].job.op # "load" PROVE SecretsFollow(v)'
  <2>1. CASE v = w
    BY <1>3, <2>1
  <2>2. CASE v # w
    <3>1. window'[v] = window[v]
      BY <2>2 DEF Others
    <3>2. UNCHANGED keychain
      BY <1>3, <2>2, <3>1, OneChanges
    <3>3. SecretsFollow(v)
      BY <1>3, <3>1 DEF ChangesInv
    <3> QED BY <3>1, <3>2, <3>3 DEF SecretsFollow, OthersBelong, IsSaved, Plans
  <2> QED BY <2>1, <2>2
<1>4. ASSUME kept', Loads' PROVE Belong(keychain, View)'
  <2>1. CASE Belong(keychain, View)'
    BY <2>1
  <2>2. CASE window[w].job.op = "load"
    <3>1. UNCHANGED keychain
      BY <2>2
    <3>2. Loads
      BY <1>4, <2>2 DEF Loads, Others
    <3>3. Belong(keychain, View)
      BY <1>4, <3>2 DEF ChangesInv
    <3> QED BY <3>1, <3>3
  <2> QED BY <1>4, <2>1, <2>2 DEF Loads
<1> QED BY <1>1, <1>2, <1>3, <1>4 DEF ChangesInv

\* A window that ends what it did, or its doing, while the file is as it was.
LEMMA RestingChanges ==
  ASSUME OneEditor, FilesInv, ChangesInv, NEW w \in Windows, Others(w), Resting(w), TreeStays(w),
         window[w].at \notin {"forget", "done"}, UNCHANGED <<sessions, legacy, expected>>,
         UNCHANGED keychain \/ window[w].job.op # "load", kept' => kept,
         kept' => window[w].job.op = "load" \/ Belong(keychain, View)'
  PROVE  ChangesInv'
<1>1. View' = View /\ Found(sessions.safe)' = Found(sessions.safe)
  BY DEF View, Found, Parsed
<1>2. window'[w].at = "idle" /\ window'[w].job.op = "load" /\ window'[w].tree = window[w].tree
  BY NoJobType DEF Resting, TreeStays
<1>3. w \in Editors => Written(w)' /\ TreeIsFound(w)' /\ ChangeFollows(w)'
  BY <1>1, <1>2 DEF Written, TreeIsFound, ChangeFollows, ChangesInv
<1>4. ChangesAreWhole'
  BY <1>1, WholeStays DEF ChangesInv
<1> QED BY <1>1, <1>2, <1>3, <1>4, ChangesStep

\* The process ends: a change of its own was cut off, unless it had none.
LEMMA OffChanges ==
  ASSUME OneEditor, FilesInv, ChangesInv, NEW w \in Windows, Others(w), window'[w] = Off,
         UNCHANGED <<sessions, legacy, keychain>>, expected.last \subseteq expected'.last,
         expected.older \subseteq expected'.older,
         window[w].at \in {"forget", "done"} => window[w].body \in expected'.last,
         kept' => kept /\ window[w].job.op = "load"
  PROVE  ChangesInv'
<1>1. View' = View /\ Found(sessions.safe)' = Found(sessions.safe)
  BY DEF View, Found, Parsed
<1>2. window'[w].at = "off" /\ window'[w].job.op = "load" /\ window'[w].tree = Empty
  BY OffType, NoJobType
<1>3. w \in Editors => Written(w)' /\ TreeIsFound(w)' /\ ChangeFollows(w)'
  BY <1>2 DEF Written, TreeIsFound, ChangeFollows
<1>4. ChangesAreWhole'
  BY <1>1, WholeStays DEF ChangesInv
<1> QED BY <1>1, <1>2, <1>3, <1>4, ChangesStep

LEMMA KillChanges ==
  ASSUME OneEditor, FilesInv, ChangesInv, NEW w \in Windows, Kill(w) PROVE ChangesInv'
<1>1. Others(w) /\ window'[w] = Off
  BY EndsEffect DEF Kill, FilesInv
<1>2. /\ expected.last \subseteq expected'.last /\ expected.older \subseteq expected'.older
      /\ window[w].at \in {"forget", "done"} => window[w].body \in expected'.last
      /\ UNCHANGED <<sessions, legacy, keychain>>
      /\ kept' => kept /\ window[w].job.op = "load"
  BY DEF Kill, Cut
<1> QED BY <1>1, <1>2, OffChanges

LEMMA CloseChanges ==
  ASSUME OneEditor, FilesInv, ChangesInv, NEW w \in Windows, Close(w) PROVE ChangesInv'
<1>1. Others(w) /\ window'[w] = Off
  BY EndsEffect DEF Close, FilesInv
<1>2. window[w].at = "idle" /\ UNCHANGED <<sessions, legacy, keychain, expected, kept>>
  BY DEF Close
<1>3. window[w].job.op = "load"
  BY <1>2 DEF FilesInv, Stage
<1> QED BY <1>1, <1>2, <1>3, OffChanges

LEMMA TabsChanges ==
  ASSUME OneEditor, FilesInv, ChangesInv, NEW w \in Windows, TabsOf(w),
         UNCHANGED <<sessions, legacy, keychain, expected, kept>>
  PROVE  ChangesInv'
<1>1. View' = View /\ Found(sessions.safe)' = Found(sessions.safe)
  BY DEF View, Found, Parsed
<1>2. /\ window'[w].at = window[w].at /\ window'[w].job = window[w].job /\ Others(w)
      /\ window'[w].tree = window[w].tree /\ window'[w].body = window[w].body
      /\ window'[w].previous = window[w].previous /\ window'[w].migrating = window[w].migrating
  BY DEF TabsOf, WriteStays, ChangeStays, TreeStays
<1>3. w \in Editors => Written(w)' /\ TreeIsFound(w)' /\ ChangeFollows(w)'
  BY <1>1, <1>2 DEF Written, TreeIsFound, ChangeFollows, ChangesInv
<1>4. ChangesAreWhole'
  BY <1>1, <1>2, WholeStays DEF ChangesInv
<1>5. kept' /\ window'[w].job.op # "load" => SecretsFollow(w)'
  <2>1. kept /\ window[w].job.op # "load" => SecretsFollow(w)
    BY DEF ChangesInv
  <2> QED BY <1>1, <1>2, <2>1 DEF SecretsFollow, OthersBelong, IsSaved, Plans
<1> QED BY <1>1, <1>2, <1>3, <1>4, <1>5, ChangesStep

LEMMA StartChanges ==
  ASSUME OneEditor, FilesInv, ChangesInv, NEW w \in Windows, NEW pid \in Pids, Start(w, pid)
  PROVE  ChangesInv'
<1> DEFINE rec == [Off EXCEPT !.at = "open", !.pid = pid]
<1>1. rec \in WindowSet /\ rec.at = "open" /\ rec.job = NoJob /\ rec.tree = Empty
  BY OffType DEF WindowSet, Stages
<1>2. window' = [window EXCEPT ![w] = rec]
  BY DEF Start
<1> HIDE DEF rec
<1>3. Others(w) /\ window'[w].at = "open" /\ window'[w].job.op = "load" /\ window'[w].tree = Empty
  BY <1>1, <1>2, SetsEffect, NoJobType DEF FilesInv
<1>4. View' = View /\ Found(sessions.safe)' = Found(sessions.safe)
  BY DEF View, Found, Parsed, Start
<1>5. window[w].at = "off" /\ window[w].job.op = "load"
  BY DEF Start, FilesInv, Stage
<1>6. w \in Editors => Written(w)' /\ TreeIsFound(w)' /\ ChangeFollows(w)'
  BY <1>3 DEF Written, TreeIsFound, ChangeFollows, Follows
<1>7. ChangesAreWhole'
  BY <1>3, <1>4, <1>5, WholeStays DEF ChangesInv, Start
<1>8. UNCHANGED <<sessions, legacy, keychain, kept>>
  BY DEF Start
<1> QED BY <1>3, <1>4, <1>5, <1>6, <1>7, <1>8, ChangesStep

\* What a loss of power leaves is what is found or what was, both whole.
LEMMA PowerLossChanges == ASSUME FilesInv, ChangesInv, PowerLoss PROVE ChangesInv'
<1>1. sessions \in [seen : StoreSet, safe : StoreSet, flushed : {TRUE}]
  BY DEF FilesInv, FileTypes
<1>2. PICK found \in {sessions.safe, IF sessions.flushed THEN sessions.seen ELSE Torn} :
        sessions' = [seen |-> found, safe |-> found, flushed |-> TRUE]
  BY DEF PowerLoss
<1>3. found \in {sessions.safe, sessions.seen} /\ legacy' = legacy
  BY <1>1, <1>2 DEF PowerLoss
<1>4. View' \in {View, Found(sessions.safe)} /\ Found(sessions.safe)' \in {View, Found(sessions.safe)}
  BY <1>2, <1>3 DEF View, Found, Parsed
<1>5. Rooted(View)' /\ Rooted(Found(sessions.safe))'
  BY <1>4 DEF ChangesInv
<1>6. \A w \in Windows : window'[w] = Off
  BY DEF PowerLoss
<1>7. \A w \in Windows : window'[w].at = "off" /\ window'[w].tree = Empty /\ window'[w].job.op = "load"
  BY <1>6, OffType, NoJobType
<1>8. \A w \in Editors : Written(w)' /\ TreeIsFound(w)' /\ ChangeFollows(w)'
  BY <1>7, SavedAssumption DEF Written, TreeIsFound, ChangeFollows
<1>9. View' \in expected'.last \cup expected'.older
  <2> DEFINE cuts == UNION {Cut(w) : w \in Windows}
  <2>1. \A w \in Windows : Cut(w) \subseteq cuts
    OBVIOUS
  <2>2. expected'.last = expected.last \cup cuts /\ expected'.older = expected.older \cup {Found(sessions.safe)}
    BY DEF PowerLoss
  <2> HIDE DEF cuts
  <2>3. View \in expected'.last \cup expected'.older
    <3>1. ASSUME NEW w \in Windows, window[w].at \in {"forget", "done"}, View = window[w].body
          PROVE  View \in expected'.last
      BY <2>1, <2>2, <3>1 DEF Cut
    <3> QED BY <2>2, <3>1 DEF ChangesInv, ChangesAreWhole, LastChanges
  <2> QED BY <1>4, <2>2, <2>3
<1>10. ChangesAreWhole'
  BY <1>9 DEF ChangesAreWhole, LastChanges
<1>11. ~kept'
  BY DEF PowerLoss
<1> QED BY <1>5, <1>8, <1>10, <1>11 DEF ChangesInv

LEMMA ChangesUnchanged ==
  ASSUME FilesInv, ChangesInv, UNCHANGED <<window, legacy, keychain, expected, kept>>,
         sessions'.seen = sessions.seen, Found(sessions'.safe) \in {View, Found(sessions.safe)}
  PROVE  ChangesInv'
<1>1. View' = View /\ Found(sessions.safe)' \in {View, Found(sessions.safe)}
  BY DEF View, Found, Parsed
<1>2. \A w \in Editors : Written(w)' /\ TreeIsFound(w)' /\ ChangeFollows(w)'
  BY <1>1 DEF ChangesInv, Written, TreeIsFound, ChangeFollows
<1>3. Rooted(View)' /\ Rooted(Found(sessions.safe))' /\ ChangesAreWhole'
  BY <1>1 DEF ChangesInv, ChangesAreWhole, LastChanges
<1>4. Loads' = Loads
  BY DEF Loads
<1>5. \A w \in Windows : SecretsFollow(w)' = SecretsFollow(w)
  BY <1>1 DEF SecretsFollow, OthersBelong, IsSaved, Plans
<1> QED BY <1>1, <1>2, <1>3, <1>4, <1>5 DEF ChangesInv

LEMMA BeginChanges ==
  ASSUME OneEditor, FilesInv, ChangesInv, NEW w \in Windows, Begin(w) PROVE ChangesInv'
<1>1. PICK job : Asked(window[w].tree, job) /\ Begins(w, job)
  BY BeginEffect DEF FilesInv
<1>2. job \in Jobs /\ job.op # "load" /\ Follows(window[w].tree, job) /\ Plans(job) /\ JobFits(job)
  BY <1>1 DEF Asked
<1>3. /\ Others(w) /\ window'[w].job = job /\ window'[w].previous = NoSecret
      /\ window'[w].at \in IF job.plan = "keep" THEN {"open"} ELSE {"secret_get", "mutate"}
      /\ window'[w].tree = window[w].tree
  BY <1>1, <1>2, BeginsEffect DEF FilesInv, TreeStays
<1>4. /\ window[w].at = "idle" /\ w \in Editors
      /\ UNCHANGED <<sessions, legacy, keychain, expected, kept>>
  BY DEF Begin
<1>5. View' = View /\ Found(sessions.safe)' = Found(sessions.safe)
  BY <1>4 DEF View, Found, Parsed
<1>6. window[w].tree = Empty \/ window[w].tree = View
  BY <1>4 DEF ChangesInv, TreeIsFound
<1>7. Follows(View, job)
  BY <1>2, <1>6, FollowsAny, ViewParts
<1>8. Written(w)' /\ TreeIsFound(w)' /\ ChangeFollows(w)'
  BY <1>3, <1>5, <1>6, <1>7 DEF Written, TreeIsFound, ChangeFollows
<1>9. ChangesAreWhole'
  BY <1>3, <1>4, <1>5, WholeStays DEF ChangesInv
<1>10. kept => SecretsFollow(w)'
  <2>1. window[w].job.op = "load" /\ \A v \in Windows : window[v].job.op # "load" => v = w
    BY <1>4 DEF FilesInv, Stage, OneEditor
  <2>2. kept => Belong(keychain, View)
    BY <2>1 DEF ChangesInv, Loads
  <2>3. Plans(job)'
    BY <1>2, <1>4 DEF Plans
  <2> QED BY <1>3, <1>4, <1>5, <2>2, <2>3 DEF SecretsFollow, OthersBelong, IsSaved, Belong, Plans
<1> QED BY <1>2, <1>3, <1>4, <1>5, <1>8, <1>9, <1>10, ChangesStep

LEMMA SecretGetChanges ==
  ASSUME OneEditor, FilesInv, ChangesInv, NEW w \in Windows, SecretGet(w) PROVE ChangesInv'
<1>1. window[w].at = "secret_get" /\ UNCHANGED <<sessions, legacy, keychain, expected, kept>>
  BY DEF SecretGet
<1>2. /\ window[w].job.plan # "keep" /\ window[w].job.op # "load" /\ w \in Editors
      /\ window[w].job.id \in Sessions
  BY <1>1, MutationId DEF FilesInv, Stage
<1>3. kept => SecretsFollow(w) /\ Belong(keychain, View)
  BY <1>1, <1>2 DEF ChangesInv, SecretsFollow
<1>4. View' = View /\ Found(sessions.safe)' = Found(sessions.safe)
  BY <1>1 DEF View, Found, Parsed
<1>5. CASE Rests(w)
  BY <1>1, <1>3, <1>4, <1>5, RestsEffect, RestingChanges DEF FilesInv
<1>6. CASE window' = [window EXCEPT ![w].at = "mutate", ![w].previous = keychain[window[w].job.id]]
  <2>1. keychain[window[w].job.id] \in SecretSet
    BY <1>2 DEF FilesInv, FileTypes
  <2>2. /\ Others(w) /\ window'[w].at = "mutate" /\ window'[w].job = window[w].job
        /\ window'[w].previous = keychain[window[w].job.id] /\ window'[w].tree = window[w].tree
    BY <1>6, <2>1, SecretGetEffect DEF FilesInv, TreeStays
  <2>3. Written(w)' /\ TreeIsFound(w)' /\ ChangeFollows(w)'
    BY <1>1, <1>2, <1>4, <2>2 DEF Written, TreeIsFound, ChangeFollows, ChangesInv
  <2>4. ChangesAreWhole'
    BY <1>1, <1>4, <2>2, WholeStays DEF ChangesInv
  <2>5. kept => SecretsFollow(w)'
    BY <1>1, <1>2, <1>3, <1>4, <2>2 DEF SecretsFollow, OthersBelong, IsSaved, Belong, Plans
  <2> QED BY <1>1, <1>2, <1>4, <2>2, <2>3, <2>4, <2>5, ChangesStep
<1> QED BY <1>5, <1>6 DEF SecretGet

LEMMA MutateChanges ==
  ASSUME OneEditor, FilesInv, ChangesInv, NEW w \in Windows, ApplySecretMutation(w)
  PROVE  ChangesInv'
<1>1. window[w].at = "mutate" /\ UNCHANGED <<sessions, legacy, expected, kept>>
  BY DEF ApplySecretMutation
<1>2. /\ window[w].job.plan # "keep" /\ window[w].job.op = "save" /\ w \in Editors
      /\ window[w].job.id \in Sessions
  BY <1>1, MutationId DEF FilesInv, Stage
<1>3. kept => SecretsFollow(w) /\ Belong(keychain, View)
  BY <1>1, <1>2 DEF ChangesInv, SecretsFollow
<1>4. View' = View /\ Found(sessions.safe)' = Found(sessions.safe)
  BY <1>1 DEF View, Found, Parsed
<1>5. CASE Rests(w) /\ UNCHANGED keychain
  BY <1>1, <1>3, <1>4, <1>5, RestsEffect, RestingChanges DEF FilesInv
<1>6. CASE /\ keychain' = [keychain EXCEPT ![window[w].job.id] =
                             IF window[w].job.plan = "set" THEN window[w].job.typed ELSE NoSecret]
           /\ Goes(w, "open")
  <2>1. /\ Others(w) /\ window'[w].at = "open" /\ window'[w].job = window[w].job
        /\ window'[w].previous = window[w].previous /\ window'[w].tree = window[w].tree
    BY <1>6, GoesEffect DEF FilesInv, Stages, WriteStays, ChangeStays, TreeStays
  <2>2. /\ \A s \in Sessions \ {window[w].job.id} : keychain'[s] = keychain[s]
        /\ window[w].job.plan = "delete" => keychain'[window[w].job.id] = NoSecret
    BY <1>2, <1>6 DEF FilesInv, FileTypes
  <2>3. Written(w)' /\ TreeIsFound(w)' /\ ChangeFollows(w)'
    BY <1>1, <1>2, <1>4, <2>1 DEF Written, TreeIsFound, ChangeFollows, ChangesInv
  <2>4. ChangesAreWhole'
    BY <1>1, <1>4, <2>1, WholeStays DEF ChangesInv
  <2>5. kept => SecretsFollow(w)'
    <3>1. kept => Plans(window[w].job)'
      BY <1>1, <1>2, <1>3, <2>1 DEF Plans, SecretsFollow
    <3> QED BY <1>1, <1>2, <1>3, <1>4, <2>1, <2>2, <3>1
            DEF SecretsFollow, OthersBelong, IsSaved, Belong
  <2> QED BY <1>1, <1>2, <1>4, <2>1, <2>3, <2>4, <2>5, ChangesStep
<1> QED BY <1>5, <1>6 DEF ApplySecretMutation

\* A failure before the file has its new name, of a load or of a change.
LEMMA GivesUpChanges ==
  ASSUME OneEditor, FilesInv, ChangesInv, NEW w \in Windows, GivesUp(w),
         window[w].at \in {"open", "write", "replace"},
         UNCHANGED <<sessions, legacy, keychain, expected, kept>>
  PROVE  ChangesInv'
<1>1. Stage(w) /\ Others(w) /\ TreeStays(w)
  BY GivesUpEffect DEF FilesInv
<1>2. kept => window[w].job.op = "load" \/ SecretsFollow(w)
  BY DEF ChangesInv
<1>3. View' = View /\ Found(sessions.safe)' = Found(sessions.safe)
  BY DEF View, Found, Parsed
<1>4. CASE window[w].job.plan = "keep"
  <2>1. Resting(w)
    BY <1>4, GivesUpEffect DEF FilesInv
  <2>2. kept => window[w].job.op = "load" \/ Belong(keychain, View)'
    BY <1>2, <1>3, <1>4 DEF SecretsFollow
  <2> QED BY <1>1, <2>1, <2>2, RestingChanges
<1>5. CASE window[w].job.plan # "keep"
  <2>1. /\ window'[w].at = "undo" /\ window'[w].job = window[w].job
        /\ window'[w].previous = window[w].previous /\ window'[w].tree = window[w].tree
    BY <1>5, GivesUpEffect DEF FilesInv, ChangeStays, TreeStays
  <2>2. w \in Editors => Written(w)' /\ TreeIsFound(w)' /\ ChangeFollows(w)'
    BY <1>3, <2>1 DEF Written, TreeIsFound, ChangeFollows, ChangesInv
  <2>3. ChangesAreWhole'
    BY <1>1, <1>3, <2>1, WholeStays DEF ChangesInv
  <2>4. window[w].job.op # "load" /\ (kept => SecretsFollow(w)')
    BY <1>1, <1>2, <1>3, <1>5, <2>1 DEF Stage, SecretsFollow, OthersBelong, IsSaved, Plans
  <2> QED BY <1>1, <1>3, <2>1, <2>2, <2>3, <2>4, ChangesStep
<1> QED BY <1>4, <1>5

\* The change goes on towards the file's name, with what it writes as it was or
\* made of what is found.
LEMMA GoesOnChanges ==
  ASSUME OneEditor, FilesInv, ChangesInv, NEW w \in Windows, Others(w), ChangeStays(w),
         window[w].at \in {"open", "write"}, window'[w].at \in {"write", "replace"},
         UNCHANGED <<sessions, legacy, keychain, expected, kept>>,
         \/ window'[w].migrating
         \/ /\ sessions.seen # Nothing \/ legacy = Nothing
            /\ window'[w].body = Apply(View, window[w].job)
  PROVE  ChangesInv'
<1>1. View' = View /\ Found(sessions.safe)' = Found(sessions.safe)
  BY DEF View, Found, Parsed
<1>2. /\ window'[w].job = window[w].job /\ window'[w].previous = window[w].previous
      /\ window'[w].tree = window[w].tree
  BY DEF ChangeStays, TreeStays
<1>3. w \in Editors => Written(w)' /\ TreeIsFound(w)' /\ ChangeFollows(w)'
  BY <1>1, <1>2 DEF Written, TreeIsFound, ChangeFollows, ChangesInv
<1>4. ChangesAreWhole'
  BY <1>1, WholeStays DEF ChangesInv
<1>5. kept /\ window[w].job.op # "load" => SecretsFollow(w)'
  <2>1. kept /\ window[w].job.op # "load" => SecretsFollow(w)
    BY DEF ChangesInv
  <2> QED BY <1>1, <1>2, <2>1 DEF SecretsFollow, OthersBelong, IsSaved, Plans
<1> QED BY <1>1, <1>2, <1>3, <1>4, <1>5, ChangesStep

LEMMA OpenChanges ==
  ASSUME OneEditor, FilesInv, ChangesInv, NEW w \in Windows, Open(w) PROVE ChangesInv'
<1>1. window[w].at = "open" /\ UNCHANGED <<sessions, legacy, keychain, kept>>
  BY DEF Open
<1>2. Stage(w) /\ Migrates(w) /\ ~window[w].migrating /\ window[w].job \in Jobs
  BY <1>1, WindowType DEF FilesInv, Migrates
<1>3. sessions.seen \in StoreSet /\ legacy \in StoreSet /\ Parsed(sessions.seen) \in Contents
  BY ParsedIsContent DEF FilesInv, FileTypes, StoreSet
<1>4. CASE /\ sessions.seen = Nothing /\ legacy # Nothing /\ UNCHANGED expected
           /\ window' = [window EXCEPT ![w].at = "write", ![w].migrating = TRUE, ![w].body = legacy]
  <2>1. legacy \in Contents
    BY <1>3, <1>4 DEF StoreSet
  <2>2. Others(w) /\ ChangeStays(w) /\ window'[w].at = "write" /\ window'[w].migrating = TRUE
    BY <1>4, <2>1, OpenMigratesEffect DEF FilesInv
  <2> QED BY <1>1, <1>4, <2>2, GoesOnChanges
<1>5. CASE /\ sessions.seen # Nothing \/ legacy = Nothing
           /\ window[w].job.op = "load" /\ expected' = Expect(Parsed(sessions.seen))
           /\ window' = [window EXCEPT ![w] = [Rested(w) EXCEPT !.tree = Parsed(sessions.seen)]]
  <2>1. Others(w) /\ Resting(w) /\ window'[w].tree = Parsed(sessions.seen)
    BY <1>3, <1>5, ShowsEffect DEF FilesInv
  <2>2. window'[w].at = "idle" /\ window'[w].job.op = "load"
    BY <2>1, NoJobType DEF Resting
  <2>3. View = Parsed(sessions.seen) /\ View' = View /\ Found(sessions.safe)' = Found(sessions.safe)
    BY <1>1, <1>5, ViewParts DEF View, Found, Parsed
  <2>4. Written(w)' /\ TreeIsFound(w)' /\ ChangeFollows(w)'
    BY <2>1, <2>2, <2>3 DEF Written, TreeIsFound, ChangeFollows
  <2>5. ChangesAreWhole'
    BY <1>5, <2>3 DEF ChangesAreWhole, LastChanges, Expect
  <2> QED BY <1>1, <1>5, <2>1, <2>2, <2>3, <2>4, <2>5, ChangesStep
<1>6. CASE /\ sessions.seen # Nothing \/ legacy = Nothing
           /\ window[w].job.op # "load" /\ UNCHANGED expected
           /\ window' = [window EXCEPT ![w].at = "write",
                                       ![w].body = Apply(Parsed(sessions.seen), window[w].job)]
  <2>1. View = Parsed(sessions.seen)
    BY <1>6, ViewParts
  <2>2. Apply(Parsed(sessions.seen), window[w].job) \in Contents
    BY <1>2, <1>3, ApplyType DEF Stage
  <2>3. /\ Others(w) /\ ChangeStays(w) /\ window'[w].at = "write"
        /\ window'[w].body = Apply(View, window[w].job)
    BY <1>6, <2>1, <2>2, OpenWritesEffect DEF FilesInv
  <2> QED BY <1>1, <1>6, <2>3, GoesOnChanges
<1>7. CASE GivesUp(w) /\ UNCHANGED expected
  BY <1>1, <1>7, GivesUpChanges
<1> QED BY <1>4, <1>5, <1>6, <1>7 DEF Open

\* Without a change, only who migrates comes so far.
LEMMA WritesWhat ==
  ASSUME FilesInv, ChangesInv, NEW w \in Windows, window[w].at \in {"write", "replace"}
  PROVE  \/ window[w].migrating
         \/ /\ w \in Editors /\ window[w].job.op # "load"
            /\ sessions.seen # Nothing \/ legacy = Nothing
            /\ window[w].body = Apply(View, window[w].job)
<1>1. Stage(w) /\ (w \in Editors => Written(w)) /\ window[w].migrating \in BOOLEAN
  BY WindowType DEF FilesInv, ChangesInv, WindowSet
<1> QED BY <1>1 DEF Stage, Written

LEMMA WriteTempChanges ==
  ASSUME OneEditor, FilesInv, ChangesInv, NEW w \in Windows, WriteTemp(w) PROVE ChangesInv'
<1>1. window[w].at = "write" /\ UNCHANGED <<sessions, legacy, keychain, expected, kept>>
  BY DEF WriteTemp
<1>2. CASE window' = [window EXCEPT ![w].at = "replace", ![w].flushed = TRUE]
  <2>1. /\ Others(w) /\ ChangeStays(w) /\ window'[w].at = "replace"
        /\ window'[w].body = window[w].body /\ window'[w].migrating = window[w].migrating
    BY <1>2, WriteTempEffect DEF FilesInv
  <2> QED BY <1>1, <2>1, WritesWhat, GoesOnChanges
<1> QED BY <1>1, <1>2, GivesUpChanges DEF WriteTemp

\* A change leaves the keychain's secrets with those they are for, if they were
\* but for the connection saved, whose own its plan has settled.
LEMMA ApplyBelongs ==
  ASSUME NEW c \in Contents, NEW job \in Jobs, JobFits(job), job.op # "load", NEW secrets,
         \A s \in Sessions \ {job.id} :
           secrets[s] # NoSecret => s \in DOMAIN c.sessions /\ c.sessions[s].saveSecret,
         job.op = "save" => job.conn.saveSecret \/ secrets[job.id] = NoSecret,
         job.op # "save" => Belong(secrets, c)
  PROVE  \A s \in Sessions :
           (job.op = "delete" => s # job.id) /\ secrets[s] # NoSecret =>
             s \in DOMAIN Apply(c, job).sessions /\ Apply(c, job).sessions[s].saveSecret
<1>1. /\ job.op \in {"save", "reorder", "delete", "folder", "folderDelete"}
      /\ job.folder \in PlaceSet /\ job.conn \in Conns
  BY DEF Jobs
<1>2. /\ c.sessions \in ConnMaps
      /\ \A s \in DOMAIN c.sessions : c.sessions[s] \in Conns
  BY ContentParts, ContentDomains
<1>3. \A k \in Conns : \A p : [k EXCEPT !.folder = p].saveSecret = k.saveSecret
  BY DEF Conns
<1>4. CASE job.op = "save"
  <2>1. job.id \in Sessions
    BY <1>4 DEF JobFits
  <2>2. Apply(c, job).sessions = Put(c.sessions, job.id, job.conn)
    BY <1>1, <1>4, <2>1, UpsertParts DEF Apply
  <2> QED BY <1>4, <2>1, <2>2 DEF Put
<1>5. CASE job.op = "reorder"
  <2>1. Apply(c, job).sessions = Moved(c, job.folder, job.ids)
    BY <1>1, <1>5, ReorderParts DEF Apply
  <2>2. \A s \in DOMAIN c.sessions :
          Moved(c, job.folder, job.ids)[s].saveSecret = c.sessions[s].saveSecret
    BY <1>2, <1>3 DEF Moved
  <2>3. DOMAIN Moved(c, job.folder, job.ids) = DOMAIN c.sessions
    BY DEF Moved
  <2> QED BY <1>5, <2>1, <2>2, <2>3 DEF Belong
<1>6. CASE job.op = "delete"
  <2>1. Apply(c, job).sessions = Without(c.sessions, job.id)
    BY <1>6, DeleteParts DEF Apply
  <2> QED BY <1>6, <2>1 DEF Without
<1>7. CASE job.op = "folder"
  <2>1. Apply(c, job).sessions = c.sessions
    BY <1>1, <1>7, FolderUpsertParts DEF Apply, JobFits
  <2> QED BY <1>7, <2>1 DEF Belong
<1>8. CASE job.op = "folderDelete"
  <2>1. Apply(c, job).sessions = SessionsLifted(c, job.id)
    BY <1>8, FolderDeleteParts DEF Apply
  <2>2. \A s \in DOMAIN c.sessions :
          SessionsLifted(c, job.id)[s].saveSecret = c.sessions[s].saveSecret
    BY <1>2, <1>3 DEF SessionsLifted
  <2>3. DOMAIN SessionsLifted(c, job.id) = DOMAIN c.sessions
    BY DEF SessionsLifted
  <2> QED BY <1>8, <2>1, <2>2, <2>3 DEF Belong
<1> QED BY <1>1, <1>4, <1>5, <1>6, <1>7, <1>8

\* The change is what is found, or who migrates moves what is found already.
LEMMA ReplaceChanges ==
  ASSUME OneEditor, FilesInv, ChangesInv, NEW w \in Windows, ReplaceFile(w) PROVE ChangesInv'
<1>1. window[w].at = "replace" /\ UNCHANGED <<legacy, keychain, expected, kept>>
  BY DEF ReplaceFile
<1>2. /\ Stage(w) /\ Migrates(w) /\ Alone /\ window[w].body \in Contents
      /\ window[w].body # Nothing /\ window[w].job \in Jobs
      /\ sessions \in [seen : StoreSet, safe : StoreSet, flushed : {TRUE}]
  BY WindowType, NothingIsNone DEF FilesInv, FileTypes
<1>3. CASE GivesUp(w) /\ UNCHANGED sessions
  BY <1>1, <1>3, GivesUpChanges
<1> DEFINE at == IF window[w].migrating THEN "open"
                 ELSE IF window[w].job.op = "delete" THEN "forget" ELSE "done"
<1>4. CASE /\ sessions' = [sessions EXCEPT !.seen = window[w].body, !.flushed = window[w].flushed]
           /\ window' = [window EXCEPT ![w].migrating = FALSE, ![w].flushed = FALSE, ![w].at = at]
  <2>1. at \in Stages
    BY DEF Stages
  <2>2. /\ Others(w) /\ ChangeStays(w) /\ window'[w].at = at /\ window'[w].migrating = FALSE
        /\ window'[w].body = window[w].body
    <3> HIDE DEF at
    <3> QED BY <1>4, <2>1, ReplacesEffect DEF FilesInv
  <2>3. /\ sessions'.seen = window[w].body /\ sessions'.safe = sessions.safe
        /\ Found(sessions.safe)' = Found(sessions.safe) /\ View' = window[w].body
    BY <1>1, <1>2, <1>4 DEF View, Found, Parsed
  <2>4. /\ window'[w].job = window[w].job /\ window'[w].previous = window[w].previous
        /\ window'[w].tree = window[w].tree
    BY <2>2 DEF ChangeStays, TreeStays
  <2>5. CASE window[w].migrating
    <3>1. View' = View /\ window'[w].at = "open"
      BY <1>2, <2>2, <2>3, <2>5, ViewParts DEF Migrates, Parsed
    <3>2. \A v \in Windows \ {w} : window[v].at = "off"
      BY <1>1, <1>2, <2>5 DEF Alone, Migrates
    <3>3. w \in Editors => Written(w)' /\ TreeIsFound(w)' /\ ChangeFollows(w)'
      BY <1>1, <2>4, <3>1 DEF Written, TreeIsFound, ChangeFollows, ChangesInv
    <3>4. ChangesAreWhole'
      BY <1>1, <2>2, <3>1, WholeStays DEF ChangesInv
    <3>5. kept /\ window[w].job.op # "load" => SecretsFollow(w)'
      <4>1. kept /\ window[w].job.op # "load" => SecretsFollow(w)
        BY DEF ChangesInv
      <4> QED BY <1>1, <2>4, <3>1, <4>1 DEF SecretsFollow, OthersBelong, IsSaved, Plans
    <3> QED BY <1>1, <2>2, <2>3, <2>4, <3>1, <3>2, <3>3, <3>4, <3>5, ChangesStep
  <2>6. CASE ~window[w].migrating
    <3>1. /\ w \in Editors /\ window[w].job.op # "load" /\ JobFits(window[w].job)
          /\ window[w].body = Apply(View, window[w].job)
      BY <1>1, <1>2, <2>6, WritesWhat DEF Stage
    <3>2. View' = Apply(View, window[w].job) /\ View \in Contents
      BY <2>3, <3>1, ViewParts
    <3>3. window'[w].at \in {"forget", "done"}
          /\ (window'[w].at = "done" => window[w].job.op # "delete")
          /\ (window'[w].at = "forget" => window[w].job.op = "delete")
      BY <2>2, <2>6
    <3>4. ASSUME NEW v \in Editors PROVE Written(v)' /\ TreeIsFound(v)' /\ ChangeFollows(v)'
      <4>1. v = w
        BY <3>1 DEF OneEditor
      <4> QED BY <2>2, <2>3, <3>3, <4>1 DEF Written, TreeIsFound, ChangeFollows
    <3>5. Follows(View, window[w].job)
      BY <1>1, <3>1 DEF ChangesInv, ChangeFollows
    <3>6. Rooted(View)' /\ Rooted(Found(sessions.safe))'
      BY <1>2, <2>3, <3>1, <3>2, <3>5, ApplyRooted DEF ChangesInv
    <3>7. ChangesAreWhole'
      BY <2>2, <2>3, <3>3 DEF ChangesAreWhole, LastChanges
    <3>8. ASSUME kept, NEW v \in Windows, window'[v].job.op # "load" PROVE SecretsFollow(v)'
      <4>1. v = w
        BY <2>2, <2>4, <3>1, <3>8, OneChanges DEF Others
      <4>2. SecretsFollow(w)
        BY <3>1, <3>8 DEF ChangesInv
      <4>3. OthersBelong(window[w].job.id) /\ Plans(window[w].job)
        BY <1>1, <4>2 DEF SecretsFollow
      <4>4. window[w].job.op = "save" =>
              window[w].job.conn.saveSecret \/ keychain[window[w].job.id] = NoSecret
        <5>1. window[w].job.plan \in {"keep", "set", "delete"}
          BY <1>2 DEF Jobs
        <5> QED BY <1>1, <4>2, <4>3, <5>1 DEF SecretsFollow, Plans
      <4>5. window[w].job.op # "save" => Belong(keychain, View)
        BY <1>1, <4>2, <4>3 DEF SecretsFollow, Plans
      <4>6. \A s \in Sessions :
              (window[w].job.op = "delete" => s # window[w].job.id) /\ keychain[s] # NoSecret =>
                s \in DOMAIN View'.sessions /\ View'.sessions[s].saveSecret
        BY <1>2, <3>1, <3>2, <4>3, <4>4, <4>5, ApplyBelongs DEF OthersBelong, IsSaved
      <4>7. /\ window'[w].at = "done" => Belong(keychain, View)'
            /\ window'[w].at = "forget" => OthersBelong(window[w].job.id)'
        <5> DEFINE found == View
        <5>1. UNCHANGED keychain /\ window'[w].at \in {"forget", "done"}
          BY <1>1, <3>3
        <5>2. \A s \in Sessions :
                (window[w].job.op = "delete" => s # window[w].job.id) /\ keychain'[s] # NoSecret =>
                  s \in DOMAIN found'.sessions /\ found'.sessions[s].saveSecret
          BY <4>6, <5>1
        <5> HIDE DEF found
        <5>3. window[w].job.op # "delete" => Belong(keychain', found')
          BY <5>2 DEF Belong
        <5>4. \A s \in Sessions \ {window[w].job.id} : keychain'[s] # NoSecret =>
                s \in DOMAIN found'.sessions /\ found'.sessions[s].saveSecret
          BY <5>2
        <5>5. OthersBelong(window[w].job.id)'
          BY <2>4, <5>4 DEF OthersBelong, IsSaved, found
        <5> QED BY <3>3, <5>3, <5>5 DEF found
      <4> QED BY <2>4, <3>3, <4>1, <4>7 DEF SecretsFollow
    <3>9. ~Loads'
      BY <2>4, <3>1 DEF Loads
    <3> QED BY <1>1, <3>4, <3>6, <3>7, <3>8, <3>9 DEF ChangesInv
  <2>7. window[w].migrating \in BOOLEAN
    BY WindowType DEF FilesInv, WindowSet
  <2> QED BY <2>5, <2>6, <2>7
<1> QED BY <1>3, <1>4 DEF ReplaceFile

LEMMA ForgetChanges ==
  ASSUME OneEditor, FilesInv, ChangesInv, NEW w \in Windows, Forget(w) PROVE ChangesInv'
<1>1. window[w].at = "forget" /\ UNCHANGED <<sessions, legacy, expected>> /\ Goes(w, "done")
  BY DEF Forget
<1>2. /\ window[w].job.op = "delete" /\ w \in Editors /\ Written(w)
      /\ keychain \in [Sessions -> SecretSet]
  BY <1>1 DEF FilesInv, FileTypes, Stage, ChangesInv
<1>3. /\ Others(w) /\ window'[w].at = "done" /\ window'[w].job = window[w].job
      /\ window'[w].body = window[w].body
  BY <1>1, GoesEffect DEF FilesInv, Stages, WriteStays, ChangeStays
<1>4. View' = View /\ Found(sessions.safe)' = Found(sessions.safe)
  BY <1>1 DEF View, Found, Parsed
<1>5. Written(w)' /\ TreeIsFound(w)' /\ ChangeFollows(w)'
  BY <1>1, <1>2, <1>3 DEF Written, TreeIsFound, ChangeFollows
<1>6. ChangesAreWhole'
  BY <1>1, <1>3, <1>4, WholeStays DEF ChangesInv
<1>7. kept' => kept /\ keychain' = [keychain EXCEPT ![window[w].job.id] = NoSecret]
  BY DEF Forget
<1>8. kept' => SecretsFollow(w)'
  <2>1. kept => OthersBelong(window[w].job.id)
    BY <1>1, <1>2 DEF ChangesInv, SecretsFollow
  <2>2. kept' => \A s \in Sessions : keychain'[s] # NoSecret => keychain[s] # NoSecret /\ s # window[w].job.id
    BY <1>2, <1>7
  <2>3. kept' => \A s \in Sessions : keychain'[s] # NoSecret => IsSaved(s)
    BY <1>7, <2>1, <2>2 DEF OthersBelong
  <2>4. kept' => Belong(keychain', View)
    BY <2>3 DEF Belong, IsSaved
  <2> QED BY <1>3, <1>4, <2>4 DEF SecretsFollow
<1> QED BY <1>1, <1>2, <1>3, <1>4, <1>5, <1>6, <1>7, <1>8, ChangesStep

LEMMA DoneChanges ==
  ASSUME OneEditor, FilesInv, ChangesInv, NEW w \in Windows, Done(w) PROVE ChangesInv'
<1>1. /\ window[w].at = "done" /\ UNCHANGED <<sessions, legacy, keychain, kept>>
      /\ expected' = Expect(window[w].body)
  BY DEF Done
<1>2. /\ window[w].job.op # "load" /\ w \in Editors /\ Written(w)
      /\ window[w].body \in Contents /\ window[w].body # Nothing
  BY <1>1, WindowType, NothingIsNone DEF FilesInv, Stage, ChangesInv
<1>3. View = window[w].body /\ Parsed(sessions.seen) = View
  BY <1>1, <1>2, ViewParts DEF Written, Parsed
<1>4. /\ Others(w) /\ Resting(w) /\ window'[w].tree = View
  BY <1>2, <1>3, ShowsEffect DEF FilesInv, Done
<1>5. window'[w].at = "idle" /\ window'[w].job.op = "load"
  BY <1>4, NoJobType DEF Resting
<1>6. View' = View /\ Found(sessions.safe)' = Found(sessions.safe)
  BY <1>1 DEF View, Found, Parsed
<1>7. Written(w)' /\ TreeIsFound(w)' /\ ChangeFollows(w)'
  BY <1>4, <1>5, <1>6 DEF Written, TreeIsFound, ChangeFollows
<1>8. ChangesAreWhole'
  BY <1>1, <1>3, <1>6 DEF ChangesAreWhole, LastChanges, Expect
<1>9. kept => Belong(keychain, View)'
  BY <1>1, <1>2, <1>6 DEF ChangesInv, SecretsFollow
<1> QED BY <1>1, <1>4, <1>5, <1>6, <1>7, <1>8, <1>9, ChangesStep

LEMMA UndoChanges ==
  ASSUME OneEditor, FilesInv, ChangesInv, NEW w \in Windows, Undo(w) PROVE ChangesInv'
<1>1. /\ window[w].at = "undo" /\ UNCHANGED <<sessions, legacy, expected>>
      /\ Others(w) /\ Resting(w) /\ TreeStays(w)
  BY RestsEffect DEF Undo, FilesInv
<1>2. /\ window[w].job.op # "load" /\ keychain \in [Sessions -> SecretSet]
      /\ View' = View
  BY <1>1 DEF FilesInv, FileTypes, Stage, View, Found, Parsed
<1>3. kept' => kept /\ keychain' = [keychain EXCEPT ![window[w].job.id] = window[w].previous]
  BY DEF Undo
<1>4. kept' => Belong(keychain, View)'
  <2>1. kept => OthersBelong(window[w].job.id)
                /\ (window[w].previous # NoSecret => IsSaved(window[w].job.id))
    BY <1>1, <1>2 DEF ChangesInv, SecretsFollow
  <2>2. kept' => \A s \in Sessions : keychain'[s] # NoSecret => IsSaved(s)
    BY <1>2, <1>3, <2>1 DEF OthersBelong
  <2>3. kept' => Belong(keychain', View)
    BY <2>2 DEF Belong, IsSaved
  <2> QED BY <1>2, <2>3
<1> QED BY <1>1, <1>2, <1>3, <1>4, RestingChanges

LEMMA ChangesInit == Init => ChangesInv
<1> SUFFICES ASSUME Init PROVE ChangesInv
  OBVIOUS
<1>1. /\ Found(sessions.safe) = View /\ View \in expected.last /\ AllShown(View)
      /\ Belong(keychain, View)
  BY Begun DEF View, Expect
<1>2. Rooted(View)
  BY <1>1, FilesInit, ViewParts, ShownIsRooted
<1>3. \A w \in Windows : /\ window[w].at = "off" /\ window[w].tree = Empty
                         /\ window[w].job.op = "load"
  BY OffType, NoJobType DEF Init
<1>4. \A w \in Editors : Written(w) /\ TreeIsFound(w) /\ ChangeFollows(w)
  BY <1>3, SavedAssumption DEF Written, TreeIsFound, ChangeFollows
<1> QED BY <1>1, <1>2, <1>3, <1>4 DEF ChangesInv, ChangesAreWhole, LastChanges

LEMMA ChangesNext == ASSUME OneEditor, FilesInv, ChangesInv, [Next]_vars PROVE ChangesInv'
<1>1. sessions \in [seen : StoreSet, safe : StoreSet, flushed : {TRUE}]
  BY DEF FilesInv, FileTypes
<1>2. CASE UNCHANGED vars
  BY <1>2, ChangesUnchanged DEF vars
<1>3. CASE Tick
  BY <1>3, ChangesUnchanged DEF Tick
<1>4. CASE PowerLoss
  BY <1>4, PowerLossChanges
<1>5. CASE Flush
  <2>1. sessions'.safe = sessions.seen /\ sessions'.seen = sessions.seen
    BY <1>1, <1>5 DEF Flush
  <2>2. Found(sessions'.safe) = View
    BY <1>5, <2>1 DEF View, Found, Parsed
  <2> QED BY <1>5, <2>1, <2>2, ChangesUnchanged DEF Flush
<1>6. ASSUME NEW pid \in Pids, OtherProcess(pid) PROVE ChangesInv'
  BY <1>6, ChangesUnchanged DEF OtherProcess
<1>7. ASSUME NEW pid \in Pids, NEW w \in Windows, Start(w, pid) PROVE ChangesInv'
  BY <1>7, StartChanges
<1>8. ASSUME NEW w \in Windows, OfferRestore(w) PROVE ChangesInv'
  BY <1>8, OfferEffect, TabsChanges DEF OfferRestore, FilesInv
<1>9. ASSUME NEW w \in Windows, ChangeTabs(w) PROVE ChangesInv'
  BY <1>9, ChangeTabsEffect, TabsChanges DEF ChangeTabs, FilesInv
<1>10. ASSUME NEW w \in Windows, TakeSnapshot(w) PROVE ChangesInv'
  BY <1>10, TakesEffect, TabsChanges DEF TakeSnapshot, FilesInv
<1> QED
  BY <1>2, <1>3, <1>4, <1>5, <1>6, <1>7, <1>8, <1>9, <1>10, KillChanges, CloseChanges, BeginChanges,
     SecretGetChanges, MutateChanges, OpenChanges, WriteTempChanges, ReplaceChanges, ForgetChanges,
     DoneChanges, UndoChanges
  DEF Next

\* What is known of the changes holds throughout, when one window makes them; the
\* files' part whoever makes them.
THEOREM IndInvariant == Spec => []IndInv
<1>1. Init => IndInv
  BY FilesInit, ChangesInit DEF IndInv
<1>2. IndInv /\ [Next]_vars => IndInv'
  BY FilesNext, ChangesNext DEF IndInv, OneEditor
<1> QED BY <1>1, <1>2, PTL DEF Spec

\* When one window at a time makes changes, the connections found are those of the
\* last change or of one cut off, or those that a loss of power brought back, whole
\* (store.rs: "never a truncated sessions file").  The lock of store.rs is one per
\* process: that there is one such window is the user's doing.
THEOREM FoundIsWhole == ASSUME OneEditor PROVE Spec => []ChangesAreWhole
<1>1. IndInv => ChangesAreWhole
  BY DEF IndInv, ChangesInv
<1> QED BY <1>1, IndInvariant, PTL

\* Nothing but a loss of power brings back what the changes that were done since
\* replaced.
LEMMA OnlyPowerLossGoesBack ==
  ASSUME [Next /\ ~PowerLoss]_vars, expected.older = {} PROVE expected'.older = {}
<1>1. CASE UNCHANGED vars \/ Tick \/ Flush
  BY <1>1 DEF vars, Tick, Flush
<1>2. ASSUME NEW pid \in Pids, NEW w \in Windows, Start(w, pid) PROVE expected'.older = {}
  BY <1>2 DEF Start
<1>3. ASSUME NEW pid \in Pids, OtherProcess(pid) PROVE expected'.older = {}
  BY <1>3 DEF OtherProcess
<1>4. ASSUME NEW w \in Windows, Kill(w) \/ Open(w) \/ Done(w) PROVE expected'.older = {}
  BY <1>4 DEF Kill, Open, Done, Expect
<1>5. ASSUME NEW w \in Windows, Begin(w) \/ SecretGet(w) \/ ApplySecretMutation(w) \/ WriteTemp(w)
      PROVE  expected'.older = {}
  BY <1>5 DEF Begin, SecretGet, ApplySecretMutation, WriteTemp
<1>6. ASSUME NEW w \in Windows, ReplaceFile(w) \/ Forget(w) \/ Undo(w) PROVE expected'.older = {}
  BY <1>6 DEF ReplaceFile, Forget, Undo
<1>7. ASSUME NEW w \in Windows, OfferRestore(w) \/ ChangeTabs(w) \/ TakeSnapshot(w) \/ Close(w)
      PROVE  expected'.older = {}
  BY <1>7 DEF OfferRestore, ChangeTabs, TakeSnapshot, Close
<1> QED BY <1>1, <1>2, <1>3, <1>4, <1>5, <1>6, <1>7 DEF Next

\* As long as no power is lost, no change that was done is: what is found is what
\* the last one left or one that was cut off, whatever write or call fails and
\* whichever window is killed or migrates (store.rs, mutate and replace_file).
THEOREM DoneChangesStay ==
  ASSUME OneEditor PROVE Init /\ [][Next /\ ~PowerLoss]_vars => []DoneIsFound
<1>1. Init => IndInv /\ expected.older = {}
  <2>1. Init => expected.older = {}
    BY DEF Init, Expect
  <2> QED BY <2>1, FilesInit, ChangesInit DEF IndInv
<1>2. IndInv /\ expected.older = {} /\ [Next /\ ~PowerLoss]_vars
      => (IndInv /\ expected.older = {})'
  <2> SUFFICES ASSUME IndInv, expected.older = {}, [Next /\ ~PowerLoss]_vars
               PROVE  (IndInv /\ expected.older = {})'
    OBVIOUS
  <2>1. [Next]_vars
    OBVIOUS
  <2> QED BY <2>1, FilesNext, ChangesNext, OnlyPowerLossGoesBack DEF IndInv, OneEditor
<1>3. IndInv /\ expected.older = {} => DoneIsFound
  BY DEF IndInv, ChangesInv, ChangesAreWhole, DoneIsFound
<1> QED BY <1>1, <1>2, <1>3, PTL

\* Between changes that went through, no secret is left for what is not saved.
THEOREM SecretsAreOwned == ASSUME OneEditor PROVE Spec => []SecretsBelong
<1>1. IndInv => SecretsBelong
  BY DEF IndInv, ChangesInv, SecretsBelong, Loads
<1> QED BY <1>1, IndInvariant, PTL

\* Every connection and folder found is somewhere under the top of the tree.
THEOREM NothingIsHidden == ASSUME OneEditor PROVE Spec => []EverythingShown
<1>1. IndInv => EverythingShown
  BY ViewParts, RootedIsShown DEF IndInv, ChangesInv, EverythingShown
<1> QED BY <1>1, IndInvariant, PTL

-----------------------------------------------------------------------------
(* The tabs: whose process id it is, and since when, says whether the window *)
(* that took the snapshot is gone.                                         *)

Processes == [who : Windows \cup {"nobody", "other"}, since : Nat, runs : BOOLEAN]
Snapshots == [taken : BOOLEAN, pid : Pids \cup {0}, since : Nat, by : Windows \cup {"nobody"},
              gone : BOOLEAN, tabs : 0 .. 2]
TabTypes == procs \in [Pids -> Processes] /\ now \in Nat /\ snapshot \in Snapshots

On(w) == window[w].at # "off"
Runs(w) == window[w].pid \in Pids /\ procs[window[w].pid].who = w /\ procs[window[w].pid].runs

\* A window that is gone is not the process that has its id now.
Taken ==
  snapshot.taken =>
    /\ snapshot.pid \in Pids /\ snapshot.since <= procs[snapshot.pid].since
    /\ snapshot.gone => ~(procs[snapshot.pid].runs /\ procs[snapshot.pid].since = snapshot.since)
    /\ ~snapshot.gone =>
         /\ snapshot.by \in Windows /\ On(snapshot.by) /\ window[snapshot.by].pid = snapshot.pid
         /\ procs[snapshot.pid].since = snapshot.since

\* Before it was offered the last tabs, a window has none and took none.
Fresh(w) ==
  window[w].offer = "unknown" =>
    /\ window[w].tabs = 0 /\ ~window[w].hadTabs
    /\ On(w) /\ snapshot.taken => snapshot.gone \/ snapshot.by # w

TabsInv ==
  /\ TabTypes /\ Taken
  /\ \A pid \in Pids : procs[pid].since <= now
  /\ \A w \in Windows : (On(w) => Runs(w)) /\ Fresh(w)

\* A step of a change is no step of the window's tabs or of its process.
Apart ==
  \A w \in Windows :
    /\ window'[w].pid = window[w].pid /\ window'[w].tabs = window[w].tabs
    /\ window'[w].hadTabs = window[w].hadTabs /\ window'[w].offer = window[w].offer
    /\ On(w)' <=> On(w)

LEMMA ApartOf ==
  ASSUME window \in [Windows -> WindowSet], NEW w \in Windows, On(w), NEW rec,
         window' = [window EXCEPT ![w] = rec], rec.pid = window[w].pid, rec.tabs = window[w].tabs,
         rec.hadTabs = window[w].hadTabs, rec.offer = window[w].offer, rec.at # "off"
  PROVE  Apart
BY DEF Apart, On

LEMMA RestedKeeps ==
  ASSUME window \in [Windows -> WindowSet], NEW w \in Windows
  PROVE  /\ Rested(w).pid = window[w].pid /\ Rested(w).tabs = window[w].tabs
         /\ Rested(w).hadTabs = window[w].hadTabs /\ Rested(w).offer = window[w].offer
         /\ Rested(w).at = "idle"
         /\ \A tree : LET rec == [Rested(w) EXCEPT !.tree = tree]
                      IN /\ rec.pid = window[w].pid /\ rec.tabs = window[w].tabs
                         /\ rec.hadTabs = window[w].hadTabs /\ rec.offer = window[w].offer
                         /\ rec.at = "idle"
<1>1. window[w] \in WindowSet
  OBVIOUS
<1>2. /\ Rested(w).pid = window[w].pid /\ Rested(w).tabs = window[w].tabs
      /\ Rested(w).hadTabs = window[w].hadTabs /\ Rested(w).offer = window[w].offer
      /\ Rested(w).at = "idle"
  BY <1>1 DEF Rested, WindowSet
<1>3. Rested(w) \in WindowSet
  BY RestedType
<1> QED BY <1>2, <1>3 DEF WindowSet

LEMMA RestsApart ==
  ASSUME window \in [Windows -> WindowSet], NEW w \in Windows, On(w),
         Rests(w) \/ \E tree : window' = [window EXCEPT ![w] = [Rested(w) EXCEPT !.tree = tree]]
  PROVE  Apart
<1>1. CASE Rests(w)
  BY <1>1, RestedKeeps, ApartOf DEF Rests
<1>2. ASSUME NEW tree, window' = [window EXCEPT ![w] = [Rested(w) EXCEPT !.tree = tree]]
      PROVE  Apart
  <2> DEFINE rec == [Rested(w) EXCEPT !.tree = tree]
  <2>1. /\ rec.pid = window[w].pid /\ rec.tabs = window[w].tabs
        /\ rec.hadTabs = window[w].hadTabs /\ rec.offer = window[w].offer
        /\ rec.at = "idle"
    BY RestedKeeps
  <2> QED BY <1>2, <2>1, ApartOf
<1> QED BY <1>1, <1>2

LEMMA GoesApart ==
  ASSUME window \in [Windows -> WindowSet], NEW w \in Windows, On(w), NEW at, at # "off", Goes(w, at)
  PROVE  Apart
<1> DEFINE rec == [window[w] EXCEPT !.at = at]
<1>1. window[w] \in WindowSet /\ window' = [window EXCEPT ![w] = rec]
  BY DEF Goes
<1>2. /\ rec.pid = window[w].pid /\ rec.tabs = window[w].tabs
      /\ rec.hadTabs = window[w].hadTabs /\ rec.offer = window[w].offer /\ rec.at = at
  BY <1>1 DEF WindowSet
<1> QED BY <1>1, <1>2, ApartOf

LEMMA BeginsApart ==
  ASSUME window \in [Windows -> WindowSet], NEW w \in Windows, On(w), NEW job, Begins(w, job)
  PROVE  Apart
<1> DEFINE at == IF job.plan = "keep" THEN "open" ELSE IF job.had THEN "secret_get" ELSE "mutate"
           rec == [window[w] EXCEPT !.job = job, !.previous = NoSecret, !.at = at]
<1>1. window[w] \in WindowSet /\ window' = [window EXCEPT ![w] = rec] /\ at # "off"
  BY DEF Begins
<1> HIDE DEF at
<1>2. /\ rec.pid = window[w].pid /\ rec.tabs = window[w].tabs
      /\ rec.hadTabs = window[w].hadTabs /\ rec.offer = window[w].offer /\ rec.at = at
  BY <1>1 DEF WindowSet
<1> QED BY <1>1, <1>2, ApartOf

LEMMA BeginApart ==
  ASSUME window \in [Windows -> WindowSet], NEW w \in Windows, Begin(w) PROVE Apart
<1>1. \E job : Begins(w, job)
  BY BeginEffect
<1> QED BY <1>1, BeginsApart DEF Begin, On

LEMMA SecretGetApart ==
  ASSUME window \in [Windows -> WindowSet], NEW w \in Windows, SecretGet(w) PROVE Apart
<1>1. On(w) /\ window[w] \in WindowSet
  BY DEF SecretGet, On
<1>2. CASE window' = [window EXCEPT ![w].at = "mutate", ![w].previous = keychain[window[w].job.id]]
  <2> DEFINE rec == [window[w] EXCEPT !.at = "mutate", !.previous = keychain[window[w].job.id]]
  <2>1. window' = [window EXCEPT ![w] = rec]
    BY <1>2
  <2>2. /\ rec.pid = window[w].pid /\ rec.tabs = window[w].tabs
        /\ rec.hadTabs = window[w].hadTabs /\ rec.offer = window[w].offer /\ rec.at = "mutate"
    BY <1>1 DEF WindowSet
  <2> QED BY <1>1, <2>1, <2>2, ApartOf
<1> QED BY <1>1, <1>2, RestsApart DEF SecretGet

LEMMA GivesUpApart ==
  ASSUME window \in [Windows -> WindowSet], NEW w \in Windows, On(w), GivesUp(w) PROVE Apart
<1>1. window[w] \in WindowSet
  OBVIOUS
<1>2. CASE window' = [window EXCEPT ![w] = Rested(w)]
  BY <1>2, RestsApart DEF Rests
<1>3. CASE window' = [window EXCEPT ![w].migrating = FALSE, ![w].flushed = FALSE, ![w].body = Empty,
                                    ![w].at = "undo"]
  <2> DEFINE rec == [window[w] EXCEPT !.migrating = FALSE, !.flushed = FALSE, !.body = Empty,
                                      !.at = "undo"]
  <2>1. window' = [window EXCEPT ![w] = rec]
    BY <1>3
  <2>2. /\ rec.pid = window[w].pid /\ rec.tabs = window[w].tabs
        /\ rec.hadTabs = window[w].hadTabs /\ rec.offer = window[w].offer /\ rec.at = "undo"
    BY <1>1 DEF WindowSet
  <2> QED BY <2>1, <2>2, ApartOf
<1> QED BY <1>2, <1>3 DEF GivesUp

LEMMA OpenApart ==
  ASSUME window \in [Windows -> WindowSet], NEW w \in Windows, Open(w) PROVE Apart
<1>1. On(w) /\ window[w] \in WindowSet
  BY DEF Open, On
<1>2. ASSUME NEW content,
             window' = [window EXCEPT ![w].at = "write", ![w].migrating = TRUE, ![w].body = content]
      PROVE  Apart
  <2> DEFINE rec == [window[w] EXCEPT !.at = "write", !.migrating = TRUE, !.body = content]
  <2>1. window' = [window EXCEPT ![w] = rec]
    BY <1>2
  <2>2. /\ rec.pid = window[w].pid /\ rec.tabs = window[w].tabs
        /\ rec.hadTabs = window[w].hadTabs /\ rec.offer = window[w].offer /\ rec.at = "write"
    BY <1>1 DEF WindowSet
  <2> QED BY <1>1, <2>1, <2>2, ApartOf
<1>3. ASSUME NEW content, window' = [window EXCEPT ![w].at = "write", ![w].body = content]
      PROVE  Apart
  <2> DEFINE rec == [window[w] EXCEPT !.at = "write", !.body = content]
  <2>1. window' = [window EXCEPT ![w] = rec]
    BY <1>3
  <2>2. /\ rec.pid = window[w].pid /\ rec.tabs = window[w].tabs
        /\ rec.hadTabs = window[w].hadTabs /\ rec.offer = window[w].offer /\ rec.at = "write"
    BY <1>1 DEF WindowSet
  <2> QED BY <1>1, <2>1, <2>2, ApartOf
<1>4. CASE window' = [window EXCEPT ![w] = [Rested(w) EXCEPT !.tree = Parsed(sessions.seen)]]
  BY <1>1, <1>4, RestsApart
<1>5. CASE GivesUp(w)
  BY <1>1, <1>5, GivesUpApart
<1> QED BY <1>2, <1>3, <1>4, <1>5 DEF Open

LEMMA WriteTempApart ==
  ASSUME window \in [Windows -> WindowSet], NEW w \in Windows, WriteTemp(w) PROVE Apart
<1>1. On(w) /\ window[w] \in WindowSet
  BY DEF WriteTemp, On
<1>2. CASE window' = [window EXCEPT ![w].at = "replace", ![w].flushed = TRUE]
  <2> DEFINE rec == [window[w] EXCEPT !.at = "replace", !.flushed = TRUE]
  <2>1. window' = [window EXCEPT ![w] = rec]
    BY <1>2
  <2>2. /\ rec.pid = window[w].pid /\ rec.tabs = window[w].tabs
        /\ rec.hadTabs = window[w].hadTabs /\ rec.offer = window[w].offer /\ rec.at = "replace"
    BY <1>1 DEF WindowSet
  <2> QED BY <1>1, <2>1, <2>2, ApartOf
<1> QED BY <1>1, <1>2, GivesUpApart DEF WriteTemp

LEMMA ReplaceApart ==
  ASSUME window \in [Windows -> WindowSet], NEW w \in Windows, ReplaceFile(w) PROVE Apart
<1>1. On(w) /\ window[w] \in WindowSet
  BY DEF ReplaceFile, On
<1> DEFINE at == IF window[w].migrating THEN "open"
                 ELSE IF window[w].job.op = "delete" THEN "forget" ELSE "done"
           rec == [window[w] EXCEPT !.migrating = FALSE, !.flushed = FALSE, !.at = at]
<1>2. CASE window' = [window EXCEPT ![w].migrating = FALSE, ![w].flushed = FALSE, ![w].at = at]
  <2>1. window' = [window EXCEPT ![w] = rec] /\ at # "off"
    BY <1>2
  <2> HIDE DEF at
  <2>2. /\ rec.pid = window[w].pid /\ rec.tabs = window[w].tabs
        /\ rec.hadTabs = window[w].hadTabs /\ rec.offer = window[w].offer /\ rec.at = at
    BY <1>1 DEF WindowSet
  <2> QED BY <1>1, <2>1, <2>2, ApartOf
<1> QED BY <1>1, <1>2, GivesUpApart DEF ReplaceFile

LEMMA OthersApart ==
  ASSUME window \in [Windows -> WindowSet], NEW w \in Windows,
         ApplySecretMutation(w) \/ Forget(w) \/ Done(w) \/ Undo(w)
  PROVE  Apart
<1>1. On(w)
  BY DEF On, ApplySecretMutation, Forget, Done, Undo
<1> QED BY <1>1, RestsApart, GoesApart DEF ApplySecretMutation, Forget, Done, Undo

LEMMA ApartTabs ==
  ASSUME TabsInv, Apart, UNCHANGED <<procs, now, snapshot>> PROVE TabsInv'
<1>1. Taken'
  BY DEF TabsInv, Taken, Apart
<1>2. ASSUME NEW w \in Windows PROVE (On(w) => Runs(w))' /\ Fresh(w)'
  BY DEF TabsInv, Runs, Fresh, Apart
<1> QED BY <1>1, <1>2 DEF TabsInv, TabTypes

\* A process ends with its window, and what it took is of one that is gone.
LEMMA EndsTabs ==
  ASSUME window \in [Windows -> WindowSet], TabsInv, NEW w \in Windows, On(w), Ends(w),
         UNCHANGED now, NEW taken \in Snapshots,
         \/ taken = SnapshotBy(w) /\ snapshot' = [taken EXCEPT !.gone = TRUE]
         \/ taken = snapshot /\ snapshot' = [snapshot EXCEPT !.gone = @ \/ snapshot.by = w]
  PROVE  TabsInv'
<1>1. Others(w) /\ window'[w] = Off /\ ~On(w)'
  BY EndsEffect, OffType DEF On
<1>2. /\ Runs(w) /\ procs \in [Pids -> Processes] /\ now \in Nat /\ snapshot \in Snapshots
      /\ Taken
  BY DEF TabsInv, TabTypes
<1>3. /\ procs' \in [Pids -> Processes]
      /\ \A p \in Pids : /\ procs'[p].who = procs[p].who /\ procs'[p].since = procs[p].since
                         /\ procs'[p].runs = (procs[p].runs /\ p # window[w].pid)
  <2> DEFINE rec == [procs[window[w].pid] EXCEPT !.runs = FALSE]
  <2>1. procs' = [procs EXCEPT ![window[w].pid] = rec] /\ window[w].pid \in Pids
    BY <1>2 DEF Ends, Runs
  <2>2. /\ rec \in Processes /\ rec.who = procs[window[w].pid].who
        /\ rec.since = procs[window[w].pid].since /\ rec.runs = FALSE
    BY <1>2, <2>1 DEF Processes
  <2> HIDE DEF rec
  <2>3. \A p \in Pids : procs[p].runs \in BOOLEAN
    BY <1>2 DEF Processes
  <2> QED BY <1>2, <2>1, <2>2, <2>3
<1>4. ASSUME NEW v \in Windows \ {w}
      PROVE  window'[v] = window[v] /\ (On(v) => Runs(v)') /\ (On(v)' <=> On(v))
  <2>1. window'[v] = window[v]
    BY <1>1 DEF Others
  <2>2. On(v) => Runs(v) /\ window[v].pid # window[w].pid
    BY <1>2 DEF TabsInv, Runs
  <2> QED BY <1>3, <2>1, <2>2 DEF Runs, On
<1>5. /\ snapshot' \in Snapshots
      /\ Taken'
      /\ snapshot'.taken => snapshot'.gone \/ snapshot'.by # w
      /\ \/ snapshot'.gone
         \/ snapshot' = snapshot
  <2>1. CASE taken = SnapshotBy(w) /\ snapshot' = [taken EXCEPT !.gone = TRUE]
    <3>1. /\ taken.pid = window[w].pid /\ taken.since = procs[window[w].pid].since
      BY <2>1 DEF SnapshotBy
    <3>2. /\ snapshot' \in Snapshots /\ snapshot'.gone = TRUE
          /\ snapshot'.pid = window[w].pid /\ snapshot'.since = procs[window[w].pid].since
      BY <2>1, <3>1 DEF Snapshots
    <3>3. procs'[window[w].pid].since <= procs'[window[w].pid].since /\ window[w].pid \in Pids
          /\ ~procs'[window[w].pid].runs
      BY <1>2, <1>3 DEF Runs, Processes
    <3>4. Taken'
      BY <1>2, <1>3, <3>2, <3>3 DEF Taken
    <3> QED BY <3>2, <3>4
  <2>2. CASE snapshot' = [snapshot EXCEPT !.gone = @ \/ snapshot.by = w]
    <3>1. CASE snapshot.gone \/ snapshot.by = w
      <4>1. snapshot' = [snapshot EXCEPT !.gone = TRUE]
        BY <2>2, <3>1
      <4>2. /\ snapshot' \in Snapshots /\ snapshot'.gone = TRUE /\ snapshot'.pid = snapshot.pid
            /\ snapshot'.since = snapshot.since /\ snapshot'.taken = snapshot.taken
        BY <1>2, <4>1 DEF Snapshots
      <4>3. Taken'
        <5>1. CASE snapshot.gone
          BY <1>2, <1>3, <4>2, <5>1 DEF Taken
        <5>2. CASE ~snapshot.gone
          BY <1>2, <1>3, <3>1, <4>2, <5>2 DEF Taken
        <5> QED BY <5>1, <5>2
      <4> QED BY <4>2, <4>3
    <3>2. CASE ~(snapshot.gone \/ snapshot.by = w)
      <4>1. snapshot' = snapshot
        <5>1. snapshot.gone = FALSE
          BY <1>2, <3>2 DEF Snapshots
        <5>2. snapshot' = [snapshot EXCEPT !.gone = FALSE]
          BY <2>2, <3>2
        <5> QED BY <1>2, <5>1, <5>2 DEF Snapshots
      <4>2. Taken'
        <5> SUFFICES ASSUME snapshot.taken
                     PROVE  /\ snapshot.pid \in Pids /\ snapshot.since <= procs'[snapshot.pid].since
                            /\ ~snapshot.gone
                            /\ snapshot.by \in Windows /\ window'[snapshot.by].at # "off"
                            /\ window'[snapshot.by].pid = snapshot.pid
                            /\ procs'[snapshot.pid].since = snapshot.since
          BY <4>1 DEF Taken, On
        <5>1. /\ snapshot.pid \in Pids /\ snapshot.since <= procs[snapshot.pid].since
              /\ snapshot.by \in Windows \ {w} /\ On(snapshot.by)
              /\ window[snapshot.by].pid = snapshot.pid
              /\ procs[snapshot.pid].since = snapshot.since
          BY <1>2, <3>2 DEF Taken
        <5>2. window'[snapshot.by] = window[snapshot.by]
          BY <1>4, <5>1
        <5> QED BY <1>3, <3>2, <5>1, <5>2 DEF On
      <4> QED BY <1>2, <3>2, <4>1, <4>2
    <3> QED BY <3>1, <3>2
  <2> QED BY <2>1, <2>2
<1>6. ASSUME NEW v \in Windows PROVE (On(v) => Runs(v))' /\ Fresh(v)'
  <2>1. CASE v = w
    BY <1>1, <2>1 DEF Fresh, Off
  <2>2. CASE v # w
    <3>1. Fresh(v)
      BY DEF TabsInv
    <3> QED BY <1>4, <1>5, <2>2, <3>1 DEF Fresh
  <2> QED BY <2>1, <2>2
<1> QED BY <1>2, <1>3, <1>5, <1>6 DEF TabsInv, TabTypes

LEMMA SnapshotType ==
  ASSUME window \in [Windows -> WindowSet], TabsInv, NEW w \in Windows, On(w)
  PROVE  /\ SnapshotBy(w) \in Snapshots /\ SnapshotBy(w).taken = TRUE /\ SnapshotBy(w).by = w
         /\ SnapshotBy(w).gone = FALSE /\ SnapshotBy(w).pid = window[w].pid
         /\ SnapshotBy(w).since = procs[window[w].pid].since /\ window[w].pid \in Pids
<1>1. Runs(w) /\ procs[window[w].pid] \in Processes /\ window[w].tabs \in 0 .. 2
  BY DEF TabsInv, TabTypes, Runs, WindowSet
<1> QED BY <1>1 DEF SnapshotBy, Snapshots, Processes, Runs

LEMMA KillTabs ==
  ASSUME window \in [Windows -> WindowSet], TabsInv, NEW w \in Windows, Kill(w) PROVE TabsInv'
<1>1. On(w) /\ Ends(w) /\ now' = now /\ snapshot \in Snapshots
      /\ snapshot' = [snapshot EXCEPT !.gone = @ \/ snapshot.by = w]
  BY DEF Kill, On, TabsInv, TabTypes
<1> QED BY <1>1, EndsTabs

LEMMA CloseTabs ==
  ASSUME window \in [Windows -> WindowSet], TabsInv, NEW w \in Windows, Close(w) PROVE TabsInv'
<1>1. On(w) /\ Ends(w) /\ now' = now /\ snapshot \in Snapshots
  BY DEF Close, On, TabsInv, TabTypes
<1>2. CASE snapshot' = [snapshot EXCEPT !.gone = @ \/ snapshot.by = w]
  BY <1>1, <1>2, EndsTabs
<1>3. CASE snapshot' = [SnapshotBy(w) EXCEPT !.gone = TRUE]
  <2>1. SnapshotBy(w) \in Snapshots
    BY <1>1, SnapshotType
  <2> DEFINE taken == SnapshotBy(w)
  <2>2. taken \in Snapshots /\ taken = SnapshotBy(w) /\ snapshot' = [taken EXCEPT !.gone = TRUE]
    BY <1>3, <2>1
  <2> HIDE DEF taken
  <2> QED BY <1>1, <2>2, EndsTabs
<1> QED BY <1>2, <1>3 DEF Close

\* An id is given to a process that starts now, when none runs with it.
LEMMA StartTabs ==
  ASSUME window \in [Windows -> WindowSet], TabsInv, NEW w \in Windows, NEW pid \in Pids, Start(w, pid)
  PROVE  TabsInv'
<1> DEFINE rec == [Off EXCEPT !.at = "open", !.pid = pid]
           own == [who |-> w, since |-> now, runs |-> TRUE]
<1>1. /\ rec.at = "open" /\ rec.pid = pid /\ rec.offer = "unknown" /\ rec.tabs = 0
      /\ rec.hadTabs = FALSE
  BY DEF Off
<1>2. window' = [window EXCEPT ![w] = rec]
  BY DEF Start
<1> HIDE DEF rec
<1>3. window'[w] = rec /\ \A v \in Windows \ {w} : window'[v] = window[v]
  BY <1>2
<1>4. /\ procs \in [Pids -> Processes] /\ now \in Nat /\ snapshot \in Snapshots /\ Taken
      /\ \A p \in Pids : procs[p].since <= now /\ procs[p].since \in Nat
  BY DEF TabsInv, TabTypes, Processes
<1>5. own \in Processes
  BY <1>4 DEF Processes
<1>6. procs' = [procs EXCEPT ![pid] = own] /\ ~On(w) /\ ~procs[pid].runs /\ procs[pid].since < now
      /\ UNCHANGED <<now, snapshot>>
  BY DEF Start, Free, On
<1>7. /\ procs' \in [Pids -> Processes] /\ procs'[pid].who = w /\ procs'[pid].since = now
      /\ procs'[pid].runs = TRUE /\ \A p \in Pids \ {pid} : procs'[p] = procs[p]
  BY <1>4, <1>5, <1>6
<1>8. ASSUME NEW v \in Windows \ {w} PROVE (On(v) => Runs(v))' /\ Fresh(v)'
  <2>1. (On(v) => Runs(v)) /\ Fresh(v) /\ window'[v] = window[v]
    BY <1>3 DEF TabsInv
  <2>2. On(v) => window[v].pid # pid
    BY <1>6, <2>1 DEF Runs
  <2> QED BY <1>6, <1>7, <2>1, <2>2 DEF On, Runs, Fresh
<1>9. (On(w) => Runs(w))' /\ Fresh(w)'
  <2>1. snapshot.taken => snapshot.gone \/ snapshot.by # w
    BY <1>4, <1>6 DEF Taken
  <2> QED BY <1>1, <1>3, <1>6, <1>7, <2>1 DEF On, Runs, Fresh
<1>10. Taken'
  <2> SUFFICES ASSUME snapshot.taken
               PROVE  /\ snapshot.pid \in Pids /\ snapshot.since <= procs'[snapshot.pid].since
                      /\ snapshot.gone =>
                           ~(procs'[snapshot.pid].runs /\ procs'[snapshot.pid].since = snapshot.since)
                      /\ ~snapshot.gone =>
                           /\ snapshot.by \in Windows /\ window'[snapshot.by].at # "off"
                           /\ window'[snapshot.by].pid = snapshot.pid
                           /\ procs'[snapshot.pid].since = snapshot.since
    BY <1>6 DEF Taken, On
  <2>1. /\ snapshot.pid \in Pids /\ snapshot.since <= procs[snapshot.pid].since
        /\ snapshot.gone => ~(procs[snapshot.pid].runs /\ procs[snapshot.pid].since = snapshot.since)
        /\ ~snapshot.gone =>
              /\ snapshot.by \in Windows /\ On(snapshot.by) /\ window[snapshot.by].pid = snapshot.pid
              /\ procs[snapshot.pid].since = snapshot.since
        /\ snapshot.since \in Nat
    BY <1>4 DEF Taken, Snapshots
  <2>2. ~snapshot.gone => snapshot.by # w /\ snapshot.pid # pid
    BY <1>6, <2>1 DEF TabsInv, Runs
  <2>3. CASE snapshot.pid = pid
    BY <1>4, <1>6, <1>7, <2>1, <2>2, <2>3
  <2>4. CASE snapshot.pid # pid
    BY <1>3, <1>7, <2>1, <2>2, <2>4 DEF On
  <2> QED BY <2>3, <2>4
<1>11. \A p \in Pids : procs'[p].since <= now'
  BY <1>4, <1>6, <1>7
<1>12. TabTypes'
  BY <1>4, <1>6, <1>7 DEF TabTypes
<1>13. \A v \in Windows : (On(v) => Runs(v))' /\ Fresh(v)'
  BY <1>8, <1>9
<1> QED BY <1>10, <1>11, <1>12, <1>13 DEF TabsInv

LEMMA OtherTabs == ASSUME TabsInv, NEW pid \in Pids, OtherProcess(pid) PROVE TabsInv'
<1>1. /\ procs \in [Pids -> Processes] /\ now \in Nat /\ snapshot \in Snapshots /\ Taken
      /\ \A p \in Pids : procs[p].since <= now /\ procs[p].since \in Nat
      /\ UNCHANGED <<now, window, snapshot>>
  BY DEF TabsInv, TabTypes, Processes, OtherProcess
<1>2. PICK own \in Processes :
        /\ procs' = [procs EXCEPT ![pid] = own] /\ own.who = "other" /\ own.since <= now
        /\ \/ ~procs[pid].runs /\ procs[pid].since < now /\ own.since = now
           \/ procs[pid].who = "other" /\ own.since = procs[pid].since /\ own.runs = FALSE
  <2>1. CASE Free(pid) /\ procs' = [procs EXCEPT ![pid] = [who |-> "other", since |-> now, runs |-> TRUE]]
    <3> DEFINE own == [who |-> "other", since |-> now, runs |-> TRUE]
    <3>1. own \in Processes /\ own.who = "other" /\ own.since = now /\ now <= now
      BY <1>1 DEF Processes
    <3>2. procs' = [procs EXCEPT ![pid] = own] /\ ~procs[pid].runs /\ procs[pid].since < now
      BY <2>1 DEF Free
    <3> HIDE DEF own
    <3> QED BY <3>1, <3>2
  <2>2. CASE procs[pid].who = "other" /\ procs' = [procs EXCEPT ![pid].runs = FALSE]
    <3> DEFINE own == [procs[pid] EXCEPT !.runs = FALSE]
    <3>1. own \in Processes /\ own.who = procs[pid].who /\ own.since = procs[pid].since /\ own.runs = FALSE
      BY <1>1 DEF Processes
    <3>2. procs' = [procs EXCEPT ![pid] = own]
      BY <2>2
    <3> HIDE DEF own
    <3> QED BY <1>1, <2>2, <3>1, <3>2
  <2> QED BY <2>1, <2>2 DEF OtherProcess
<1>3. /\ procs' \in [Pids -> Processes] /\ procs'[pid] = own
      /\ \A p \in Pids \ {pid} : procs'[p] = procs[p]
  BY <1>1, <1>2
<1>4. ASSUME NEW v \in Windows PROVE On(v) => window[v].pid # pid
  <2>1. On(v) => Runs(v)
    BY DEF TabsInv
  <2> QED BY <1>2, <2>1, SavedAssumption DEF Runs
<1>5. ASSUME NEW v \in Windows PROVE (On(v) => Runs(v))' /\ Fresh(v)'
  <2>1. (On(v) => Runs(v)) /\ Fresh(v)
    BY DEF TabsInv
  <2> QED BY <1>1, <1>3, <1>4, <2>1 DEF On, Runs, Fresh
<1>6. Taken'
  <2> SUFFICES ASSUME snapshot.taken
               PROVE  /\ snapshot.pid \in Pids /\ snapshot.since <= procs'[snapshot.pid].since
                      /\ snapshot.gone =>
                           ~(procs'[snapshot.pid].runs /\ procs'[snapshot.pid].since = snapshot.since)
                      /\ ~snapshot.gone =>
                           /\ snapshot.by \in Windows /\ window[snapshot.by].at # "off"
                           /\ window[snapshot.by].pid = snapshot.pid
                           /\ procs'[snapshot.pid].since = snapshot.since
    BY <1>1 DEF Taken, On
  <2>1. /\ snapshot.pid \in Pids /\ snapshot.since <= procs[snapshot.pid].since
        /\ snapshot.gone => ~(procs[snapshot.pid].runs /\ procs[snapshot.pid].since = snapshot.since)
        /\ ~snapshot.gone =>
              /\ snapshot.by \in Windows /\ On(snapshot.by) /\ window[snapshot.by].pid = snapshot.pid
              /\ procs[snapshot.pid].since = snapshot.since
        /\ snapshot.since \in Nat
    BY <1>1 DEF Taken, Snapshots
  <2>2. ~snapshot.gone => snapshot.pid # pid
    BY <1>4, <2>1
  <2>3. CASE snapshot.pid = pid
    BY <1>1, <1>2, <1>3, <2>1, <2>2, <2>3
  <2>4. CASE snapshot.pid # pid
    BY <1>3, <2>1, <2>4 DEF On
  <2> QED BY <2>3, <2>4
<1>7. TabTypes' /\ \A p \in Pids : procs'[p].since <= now'
  BY <1>1, <1>2, <1>3 DEF TabTypes
<1> QED BY <1>5, <1>6, <1>7 DEF TabsInv

LEMMA PowerLossTabs == ASSUME TabsInv, PowerLoss PROVE TabsInv'
<1>1. /\ procs \in [Pids -> Processes] /\ now \in Nat /\ snapshot \in Snapshots /\ Taken
      /\ \A p \in Pids : procs[p].since <= now
  BY DEF TabsInv, TabTypes
<1>2. /\ \A w \in Windows : window'[w] = Off
      /\ procs' = [p \in Pids |-> [procs[p] EXCEPT !.runs = FALSE]]
      /\ snapshot' = [snapshot EXCEPT !.gone = TRUE] /\ now' = now
  BY DEF PowerLoss
<1>3. \A p \in Pids : /\ [procs[p] EXCEPT !.runs = FALSE] \in Processes
                      /\ [procs[p] EXCEPT !.runs = FALSE].since = procs[p].since
                      /\ [procs[p] EXCEPT !.runs = FALSE].runs = FALSE
  BY <1>1 DEF Processes
<1>4. /\ procs' \in [Pids -> Processes]
      /\ \A p \in Pids : procs'[p].since = procs[p].since /\ procs'[p].runs = FALSE
  BY <1>2, <1>3
<1>5. /\ snapshot' \in Snapshots /\ snapshot'.gone = TRUE /\ snapshot'.pid = snapshot.pid
      /\ snapshot'.since = snapshot.since /\ snapshot'.taken = snapshot.taken
  BY <1>1, <1>2 DEF Snapshots
<1>6. Taken'
  BY <1>1, <1>4, <1>5 DEF Taken
<1>7. \A w \in Windows : (On(w) => Runs(w))' /\ Fresh(w)'
  BY <1>2 DEF On, Fresh, Off
<1> QED BY <1>1, <1>2, <1>4, <1>5, <1>6, <1>7 DEF TabsInv, TabTypes

LEMMA OfferFields ==
  ASSUME window \in [Windows -> WindowSet], NEW w \in Windows, OfferRestore(w)
  PROVE  /\ \A v \in Windows \ {w} : window'[v] = window[v]
         /\ window'[w].offer = IF snapshot.taken /\ snapshot.tabs # 0 /\ ~Live(w) THEN "yes" ELSE "no"
         /\ window'[w].pid = window[w].pid /\ On(w) /\ On(w)'
         /\ window[w].offer = "unknown"
<1> DEFINE offer == IF snapshot.taken /\ snapshot.tabs # 0 /\ ~Live(w) THEN "yes" ELSE "no"
           rec == [window[w] EXCEPT !.offer = offer]
<1>1. window' = [window EXCEPT ![w] = rec] /\ window[w] \in WindowSet
      /\ window[w].at = "idle" /\ window[w].offer = "unknown"
  BY DEF OfferRestore
<1> HIDE DEF offer
<1>2. rec.offer = offer /\ rec.pid = window[w].pid /\ rec.at = window[w].at
  BY <1>1 DEF WindowSet
<1> HIDE DEF rec
<1> QED BY <1>1, <1>2 DEF On, offer

LEMMA OfferTabs ==
  ASSUME window \in [Windows -> WindowSet], TabsInv, NEW w \in Windows, OfferRestore(w) PROVE TabsInv'
<1>1. UNCHANGED <<procs, now, snapshot>>
  BY DEF OfferRestore
<1>2. /\ \A v \in Windows : window'[v].pid = window[v].pid /\ (On(v)' <=> On(v))
      /\ \A v \in Windows \ {w} : window'[v] = window[v]
      /\ window'[w].offer # "unknown"
  BY OfferFields DEF On
<1>3. ASSUME NEW v \in Windows PROVE (On(v) => Runs(v))' /\ Fresh(v)'
  BY <1>1, <1>2 DEF TabsInv, Runs, Fresh
<1>4. Taken'
  BY <1>1, <1>2 DEF TabsInv, Taken, On
<1> QED BY <1>1, <1>3, <1>4 DEF TabsInv, TabTypes

\* A window's tabs and snapshots come after its offer.
LEMMA TabStep ==
  ASSUME window \in [Windows -> WindowSet], TabsInv, NEW w \in Windows, window[w].offer # "unknown",
         On(w), NEW rec, window' = [window EXCEPT ![w] = rec], rec.pid = window[w].pid,
         rec.at = window[w].at, rec.offer = window[w].offer, UNCHANGED <<procs, now>>,
         UNCHANGED snapshot \/ snapshot' = SnapshotBy(w)
  PROVE  TabsInv'
<1>1. /\ \A v \in Windows : window'[v].pid = window[v].pid /\ window'[v].at = window[v].at
      /\ \A v \in Windows \ {w} : window'[v] = window[v]
      /\ window'[w].offer # "unknown"
  OBVIOUS
<1>2. ASSUME NEW v \in Windows PROVE (On(v) => Runs(v))'
  BY <1>1 DEF TabsInv, Runs, On
<1>3. CASE UNCHANGED snapshot
  <2>1. ASSUME NEW v \in Windows PROVE Fresh(v)'
    BY <1>1, <1>3 DEF TabsInv, Fresh, On
  <2>2. Taken'
    BY <1>1, <1>3 DEF TabsInv, Taken, On
  <2> QED BY <1>2, <1>3, <2>1, <2>2 DEF TabsInv, TabTypes
<1>4. CASE snapshot' = SnapshotBy(w)
  <2>1. /\ snapshot' \in Snapshots /\ snapshot'.taken = TRUE /\ snapshot'.by = w
        /\ snapshot'.gone = FALSE /\ snapshot'.pid = window[w].pid
        /\ snapshot'.since = procs[window[w].pid].since /\ window[w].pid \in Pids
        /\ procs[window[w].pid].since \in Nat
    BY <1>4, SnapshotType DEF TabsInv, TabTypes, Processes
  <2>2. Taken'
    BY <1>1, <2>1 DEF Taken, On
  <2>3. ASSUME NEW v \in Windows PROVE Fresh(v)'
    BY <1>1, <2>1 DEF TabsInv, Fresh, On
  <2> QED BY <1>2, <2>1, <2>2, <2>3 DEF TabsInv, TabTypes
<1> QED BY <1>3, <1>4

LEMMA ChangeTabsTabs ==
  ASSUME window \in [Windows -> WindowSet], TabsInv, NEW w \in Windows, ChangeTabs(w) PROVE TabsInv'
<1>1. PICK tabs \in 0 .. 2 : window' = [window EXCEPT ![w].tabs = tabs]
  BY DEF ChangeTabs
<1> DEFINE rec == [window[w] EXCEPT !.tabs = tabs]
<1>2. window' = [window EXCEPT ![w] = rec] /\ window[w] \in WindowSet
  BY <1>1
<1>3. rec.pid = window[w].pid /\ rec.at = window[w].at /\ rec.offer = window[w].offer
  BY <1>2 DEF WindowSet
<1> HIDE DEF rec
<1> QED BY <1>2, <1>3, TabStep DEF ChangeTabs, On

LEMMA TakesTabs ==
  ASSUME window \in [Windows -> WindowSet], TabsInv, NEW w \in Windows, TakeSnapshot(w) PROVE TabsInv'
<1>1. On(w) /\ window[w].offer # "unknown"
  BY DEF TakeSnapshot, SaysNew, HadTabs, TabsInv, Fresh, On
<1>2. PICK rec : /\ window' = [window EXCEPT ![w] = rec] /\ rec.pid = window[w].pid
                 /\ rec.at = window[w].at /\ rec.offer = window[w].offer
  <2> DEFINE said == [window[w] EXCEPT !.hadTabs = TRUE, !.last = window[w].tabs + 1]
             kept0 == [window[w] EXCEPT !.hadTabs = TRUE]
  <2>1. /\ said.pid = window[w].pid /\ said.at = window[w].at /\ said.offer = window[w].offer
        /\ kept0.pid = window[w].pid /\ kept0.at = window[w].at /\ kept0.offer = window[w].offer
    BY WindowType DEF WindowSet
  <2>2. window' = [window EXCEPT ![w] = said] \/ window' = [window EXCEPT ![w] = kept0]
    BY DEF TakeSnapshot
  <2> HIDE DEF said, kept0
  <2> QED BY <2>1, <2>2
<1>3. UNCHANGED <<procs, now>> /\ (UNCHANGED snapshot \/ snapshot' = SnapshotBy(w))
  BY DEF TakeSnapshot
<1> QED BY <1>1, <1>2, <1>3, TabStep

LEMMA TabsInit == Init => TabsInv
<1> SUFFICES ASSUME Init PROVE TabsInv
  OBVIOUS
<1> DEFINE nobody == [who |-> "nobody", since |-> 0, runs |-> FALSE]
<1>1. nobody \in Processes /\ nobody.since = 0
  BY DEF Processes
<1>2. procs = [p \in Pids |-> nobody] /\ now = 1
  BY DEF Init
<1> HIDE DEF nobody
<1>3. procs \in [Pids -> Processes] /\ \A p \in Pids : procs[p].since <= now
  BY <1>1, <1>2
<1>4. snapshot \in Snapshots /\ snapshot.taken = FALSE
  BY DEF Init, Snapshots
<1>5. \A w \in Windows : window[w] = Off
  BY DEF Init
<1>6. \A w \in Windows : (On(w) => Runs(w)) /\ Fresh(w)
  BY <1>5 DEF On, Fresh, Off
<1> QED BY <1>2, <1>3, <1>4, <1>6 DEF TabsInv, TabTypes, Taken

LEMMA TabsNext ==
  ASSUME window \in [Windows -> WindowSet], TabsInv, [Next]_vars PROVE TabsInv'
<1>1. CASE UNCHANGED <<window, procs, now, snapshot>>
  BY <1>1, ApartTabs DEF Apart, On
<1>2. CASE Tick
  <2>1. UNCHANGED <<window, procs, snapshot>> /\ now' = now + 1
    BY <1>2 DEF Tick
  <2>2. \A p \in Pids : procs[p].since <= now + 1
    BY DEF TabsInv, TabTypes, Processes
  <2>3. Taken' /\ \A w \in Windows : (On(w) => Runs(w))' /\ Fresh(w)'
    BY <2>1 DEF TabsInv, Taken, On, Runs, Fresh
  <2> QED BY <2>1, <2>2, <2>3 DEF TabsInv, TabTypes
<1>3. ASSUME NEW w \in Windows, Begin(w) \/ SecretGet(w) \/ Open(w) \/ WriteTemp(w) \/ ReplaceFile(w)
                                \/ ApplySecretMutation(w) \/ Forget(w) \/ Done(w) \/ Undo(w)
      PROVE  TabsInv'
  <2>1. Apart
    BY <1>3, BeginApart, SecretGetApart, OpenApart, WriteTempApart, ReplaceApart, OthersApart
  <2>2. UNCHANGED <<procs, now, snapshot>>
    BY <1>3 DEF Begin, SecretGet, Open, WriteTemp, ReplaceFile, ApplySecretMutation, Forget, Done, Undo
  <2> QED BY <2>1, <2>2, ApartTabs
<1>4. UNCHANGED vars \/ Flush => UNCHANGED <<window, procs, now, snapshot>>
  BY DEF vars, Flush
<1> QED
  BY <1>1, <1>2, <1>3, <1>4, PowerLossTabs, StartTabs, OtherTabs, KillTabs, CloseTabs, OfferTabs,
     ChangeTabsTabs, TakesTabs
  DEF Next

THEOREM TabsInvariant == Spec => []TabsInv
<1>1. FilesInv => window \in [Windows -> WindowSet]
  BY DEF FilesInv
<1>2. TabsInv /\ FilesInv /\ [Next]_vars => TabsInv'
  BY <1>1, TabsNext
<1> QED BY <1>2, TabsInit, FilesInvariant, PTL DEF Spec

\* Who took the snapshot is gone just when no other process that runs has been its
\* id's since.
LEMMA LiveIsNotGone ==
  ASSUME TabsInv, NEW w \in Windows, On(w), window[w].offer = "unknown", snapshot.taken
  PROVE  ~Live(w) <=> snapshot.gone
<1>1. CASE snapshot.gone
  BY <1>1 DEF TabsInv, Taken, Live
<1>2. CASE ~snapshot.gone
  <2>1. /\ snapshot.by \in Windows \ {w} /\ On(snapshot.by)
        /\ window[snapshot.by].pid = snapshot.pid /\ snapshot.pid \in Pids
        /\ procs[snapshot.pid].since = snapshot.since
    BY <1>2 DEF TabsInv, Taken, Fresh
  <2>2. Runs(snapshot.by) /\ Runs(w)
    BY <2>1 DEF TabsInv
  <2> QED BY <1>2, <2>1, <2>2 DEF Live, Runs
<1> QED BY <1>1, <1>2

LEMMA OneFieldStays ==
  ASSUME window \in [Windows -> WindowSet], NEW v \in Windows, ChangeTabs(v) \/ TakeSnapshot(v)
  PROVE  \A w \in Windows : window'[w].offer = window[w].offer
<1>1. window[v] \in WindowSet
  OBVIOUS
<1>2. ASSUME NEW tabs, window' = [window EXCEPT ![v].tabs = tabs]
      PROVE  \A w \in Windows : window'[w].offer = window[w].offer
  <2> DEFINE rec == [window[v] EXCEPT !.tabs = tabs]
  <2>1. rec.offer = window[v].offer /\ window' = [window EXCEPT ![v] = rec]
    BY <1>1, <1>2 DEF WindowSet
  <2> HIDE DEF rec
  <2> QED BY <2>1
<1>3. ASSUME NEW last, window' = [window EXCEPT ![v].hadTabs = TRUE, ![v].last = last]
      PROVE  \A w \in Windows : window'[w].offer = window[w].offer
  <2> DEFINE rec == [window[v] EXCEPT !.hadTabs = TRUE, !.last = last]
  <2>1. rec.offer = window[v].offer /\ window' = [window EXCEPT ![v] = rec]
    BY <1>1, <1>3 DEF WindowSet
  <2> HIDE DEF rec
  <2> QED BY <2>1
<1>4. CASE window' = [window EXCEPT ![v].hadTabs = TRUE]
  <2> DEFINE rec == [window[v] EXCEPT !.hadTabs = TRUE]
  <2>1. rec.offer = window[v].offer /\ window' = [window EXCEPT ![v] = rec]
    BY <1>1, <1>4 DEF WindowSet
  <2> HIDE DEF rec
  <2> QED BY <2>1
<1> QED BY <1>2, <1>3, <1>4 DEF ChangeTabs, TakeSnapshot

LEMMA OnlyOfferRestore ==
  ASSUME window \in [Windows -> WindowSet], [Next]_vars, NEW w \in Windows,
         window[w].offer = "unknown", window'[w].offer # "unknown"
  PROVE  OfferRestore(w)
<1>1. ~UNCHANGED window
  OBVIOUS
<1>2. ~PowerLoss
  BY DEF PowerLoss, Off
<1>3. ASSUME NEW v \in Windows, NEW pid \in Pids PROVE ~Start(v, pid)
  <2> DEFINE rec == [Off EXCEPT !.at = "open", !.pid = pid]
  <2>1. rec.offer = "unknown"
    BY DEF Off
  <2> HIDE DEF rec
  <2>2. window' = [window EXCEPT ![v] = rec] => window'[w].offer = "unknown"
    BY <2>1
  <2> QED BY <2>2 DEF Start, rec
<1>4. ASSUME NEW v \in Windows PROVE ~Ends(v)
  BY DEF Ends, Off
<1>5. ~Apart
  BY DEF Apart
<1>6. ASSUME NEW v \in Windows PROVE ~ChangeTabs(v) /\ ~TakeSnapshot(v)
  BY OneFieldStays
<1>7. ASSUME NEW v \in Windows \ {w} PROVE ~OfferRestore(v)
  BY OfferFields
<1>8. ASSUME NEW v \in Windows
      PROVE  ~(Begin(v) \/ SecretGet(v) \/ Open(v) \/ WriteTemp(v) \/ ReplaceFile(v)
               \/ ApplySecretMutation(v) \/ Forget(v) \/ Done(v) \/ Undo(v))
  BY <1>5, BeginApart, SecretGetApart, OpenApart, WriteTempApart, ReplaceApart, OthersApart
<1>9. ~Tick /\ ~Flush /\ ~UNCHANGED vars /\ \A pid \in Pids : ~OtherProcess(pid)
  BY <1>1 DEF Tick, Flush, vars, OtherProcess
<1>10. \A v \in Windows : ~Kill(v) /\ ~Close(v)
  BY <1>4 DEF Kill, Close
<1> QED BY <1>2, <1>3, <1>6, <1>7, <1>8, <1>9, <1>10 DEF Next

\* A window offers the last tabs just when the window that took them is gone, though
\* its process id runs another program by now (store.rs, tabs_snapshot_load).
THEOREM OffersAreOfTheGone == Spec => OffersAreFree
<1>1. FilesInv => window \in [Windows -> WindowSet]
  BY DEF FilesInv
<1>2. ASSUME FilesInv, TabsInv, [Next]_vars
      PROVE  [\A w \in Windows :
                window[w].offer = "unknown" /\ window'[w].offer # "unknown" =>
                  (window'[w].offer = "yes" <=> snapshot.taken /\ snapshot.tabs # 0 /\ snapshot.gone)]_vars
  <2> SUFFICES ASSUME NEW w \in Windows, window[w].offer = "unknown", window'[w].offer # "unknown"
               PROVE  window'[w].offer = "yes" <=> snapshot.taken /\ snapshot.tabs # 0 /\ snapshot.gone
    OBVIOUS
  <2>1. OfferRestore(w)
    BY <1>1, <1>2, OnlyOfferRestore
  <2>2. /\ On(w)
        /\ window'[w].offer = IF snapshot.taken /\ snapshot.tabs # 0 /\ ~Live(w) THEN "yes" ELSE "no"
    BY <1>1, <1>2, <2>1, OfferFields
  <2>3. snapshot.taken => (~Live(w) <=> snapshot.gone)
    BY <1>2, <2>2, LiveIsNotGone
  <2> QED BY <2>2, <2>3
<1> QED BY <1>2, FilesInvariant, TabsInvariant, PTL DEF Spec, OffersAreFree
=============================================================================
