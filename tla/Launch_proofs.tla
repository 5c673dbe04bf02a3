----------------------------- MODULE Launch_proofs -----------------------------
(***************************************************************************)
(* Proofs about Launch, for any documents, any directories and any number  *)
(* of players.  What both programs read is settled once (ReadsPosted);    *)
(* then one invariant, in the parts below, follows the loop of             *)
(* liujdg.build over the persons and the walk of liujdg.run through the    *)
(* directories.                                                            *)
(***************************************************************************)
EXTENDS Launch, FiniteSetTheorems, SequenceTheorems, TLAPS

-----------------------------------------------------------------------------
(* The invariant.                                                          *)

Last      == Len(json.players)
Locations == Seq(STRING)
Sights    == [at : Locations \cup {Nowhere}, sees : SUBSET Locations]
Outcomes  == {"none", "exited 0", "exited 1"}

\* Where the build of a person runs, the folder it makes, and the directory both
\* programs start from.
Root(game)      == Resolve(Home, game.config.basedir)
Site(game, p)   == Resolve(Root(game), game.persons[p].basedir)
Folder(game, p) == Resolve(Site(game, p), game.persons[p].folder)

\* The document that was posted and who posted it do not change.
Posted ==
  /\ json \in Jsons
  /\ source \in [from : {"shell"}, dir : JsonDirs \cup {Nowhere}]
               \cup [from : {"daemon"}, dir : {Nowhere}]
  /\ source.from = "daemon" => Accepted(json)

\* Where a program can only be once it has read a document it accepts.
InBuild == {"logging", "person", "waiting", "joining", "reporting"}
InRun   == {"opening", "checking", "launching", "unwinding", "game"}

Whereabouts ==
  /\ dirs \subseteq Locations
  /\ Files \subseteq dirs
  /\ cwd \in dirs
  /\ pc = "reading" => cwd = Home
  /\ pc \in InBuild \cup InRun => Accepted(json)
  /\ pc \in InBuild => Root(info) \in dirs

Control ==
  /\ pc \in InBuild \cup InRun \cup {"reading", "built", "starting", "over"}
  /\ who \in 0 .. Last
  /\ child \in Running \cup {"none", "killed", "exited 0", "exited 1"}
  /\ reaped \in BOOLEAN
  /\ orphan \in BOOLEAN
  /\ rc \in {0, -1}
  /\ errors \in 0 .. MaxErrors

Histories ==
  /\ tried \subseteq 0 .. Last
  /\ ended \in [0 .. Last -> Outcomes]
  /\ made \in [0 .. Last -> Locations \cup {Nowhere}]
  /\ built \in [0 .. Last -> Locations \cup {Nowhere}]
  /\ started \in [0 .. Last -> Sights]
  /\ up \subseteq 0 .. Last

\* The child belongs to the turn of one person, whose outcome it is.
Child ==
  /\ pc \notin {"waiting", "joining", "reporting"} => child = "none" /\ ~reaped /\ ~orphan
  /\ pc = "joining" => child \notin Running
  /\ pc = "reporting" => child = "exited 1"
  /\ pc = "waiting" => child # "none"
  /\ reaped => child \notin Running
  /\ child \in {"exited 0", "exited 1"} => ended[who] = child

\* The persons in front of the loop have had their turn, and those behind it not.
Turns ==
  /\ pc \in {"reading", "logging"} => tried = {} /\ who = 0 /\ rc = 0
  /\ pc = "person" => tried = 0 .. who - 1
  /\ pc \in {"waiting", "joining", "reporting"} => tried = 0 .. who
  /\ pc = "built" => tried = 0 .. Last \/ (tried = {} /\ rc = -1)

\* As long as the return code is 0, every turn that is over went well.
AllWell ==
  pc \in {"person", "waiting", "joining", "reporting", "built"} /\ rc = 0 =>
    \A p \in tried :
      /\ made[p] \in dirs
      /\ \/ info.persons[p].build \in {"", "."}
         \/ ended[p] = "exited 0"
         \/ pc \in {"waiting", "joining", "reporting"} /\ p = who

\* What was built is where the build said.
Sites ==
  \A p \in 0 .. Last :
    /\ built[p] \in {Nowhere, Site(info, p)}
    /\ made[p] \in {Nowhere, Folder(info, p)}

\* liujdg.run has come to the directory the build started from, and what it
\* launched is where the build was.
Walk ==
  Documented =>
    /\ pc = "starting" => Resolve(cwd, config.basedir) = Root(info)
    /\ pc \in InRun => cwd = Root(info)
    /\ \A p \in up :
         /\ started[p].at = Site(info, p)
         /\ Site(info, p) \o info.persons[p].folder.names \in started[p].sees
    /\ pc = "game" => result = Resolve(Root(info), config.logdir)

Launched ==
  /\ pc \in {"starting", "opening", "checking"} => who = 0
  /\ pc = "launching" => up = 0 .. who - 1
  /\ pc = "game" => up = 0 .. Last
  /\ pc \notin {"launching", "game", "unwinding"} => up = {}

IInv ==
  /\ Posted
  /\ Whereabouts
  /\ Control
  /\ Histories
  /\ Child
  /\ Turns
  /\ AllWell
  /\ Sites
  /\ Walk
  /\ Launched

-----------------------------------------------------------------------------
(* Paths, and what is read of a document.                                  *)

\* What an element of a well-typed path and what a place resolves to are.
LEMMA ResolveType ==
  ASSUME NEW at \in Locations, NEW path \in Paths
  PROVE  Resolve(at, path) \in Locations
<1>1. path.names \in Seq(STRING)
  BY DEF Paths
<1>2. at \o path.names \in Seq(STRING)
  BY <1>1, ConcatProperties DEF Locations
<1> QED
  BY <1>1, <1>2 DEF Resolve, Locations

\* create_directories makes places, and the one it is asked for among them.
LEMMA ParentsType ==
  ASSUME NEW at \in Locations
  PROVE  Parents(at) \subseteq Locations /\ at \in Parents(at)
<1>1. \A k \in 0 .. Len(at) : SubSeq(at, 1, k) \in Seq(STRING)
  <2> TAKE k \in 0 .. Len(at)
  <2>1. \A i \in 1 .. k : at[i] \in STRING
    BY DEF Locations
  <2> QED
    BY <2>1, SubSeqProperties DEF Locations
<1>2. SubSeq(at, 1, Len(at)) = at
  BY SubSeqFull DEF Locations
<1>3. Len(at) \in Nat
  BY DEF Locations
<1>4. \E k \in 0 .. Len(at) : at = SubSeq(at, 1, k)
  <2>1. Len(at) \in 0 .. Len(at)
    BY <1>3
  <2> QED
    BY <2>1, <1>2, Zenon
<1>5. at \in Parents(at)
  BY <1>4, Zenon DEF Parents
<1> QED
  BY <1>1, <1>5 DEF Parents, Locations

LEMMA SpecialPaths == Here \in Paths /\ Here # NoPath
<1>1. Here \in Paths
  <2>1. <<>> \in Seq(STRING)
    OBVIOUS
  <2> QED
    BY <2>1 DEF Here, Path, Paths
<1>2. Len(Here.names) = 0 /\ Len(NoPath.names) = 1
  BY DEF Here, NoPath, Path
<1> QED
  BY <1>1, <1>2

LEMMA DirectoryType ==
  ASSUME NEW path \in Paths
  PROVE  /\ Directory(path) \in Paths
         /\ Directory(path) # NoPath
         /\ Directory(Directory(path)) = Directory(path)
BY SpecialPaths DEF Directory

\* What fromString keeps of a person and of the options.
People == [id : STRING, build : STRING, folder : Paths, basedir : Paths]
Options == [logdir : Paths \cup {NoPath}, basedir : Paths,
            timeLimit : 0 .. IntMax, buildTimeLimit : 0 .. IntMax]

LEMMA LPersonType ==
  ASSUME NEW v \in Humans
  PROVE  LPerson(v) \in People
BY DirectoryType DEF LPerson, Humans, People

LEMMA OptionsType ==
  ASSUME NEW d \in Documents
  PROVE  Ljdgconfig(d.config) \in Options
<1> DEFINE v == d.config
<1>1. v \in [fields : SUBSET STRING, logdir : Paths, basedir : Paths,
             timeLimit : Int, buildTimeLimit : Int]
  BY DEF Documents
<1>2. Here \in Paths
  BY SpecialPaths
<1>3. Directory(v.basedir) \in Paths
  BY <1>1, DirectoryType
<1>4. /\ Limit(v, "timeLimit", v.timeLimit, 3) \in 0 .. IntMax
      /\ Limit(v, "buildTimeLimit", v.buildTimeLimit, 10) \in 0 .. IntMax
  BY Given DEF Limit
<1> QED
  BY <1>1, <1>2, <1>3, <1>4 DEF Ljdgconfig, Options

\* Writing what was read and reading it again changes nothing.
Written(v, names) == [f \in {"fields"} \cup DOMAIN v |-> IF f = "fields" THEN names ELSE v[f]]

LEMMA PersonIsReadBack ==
  ASSUME NEW v \in Humans
  PROVE  /\ LPerson(Written(LPerson(v), PersonFields)) = LPerson(v)
         /\ Written(LPerson(v), PersonFields).fields = PersonFields
<1> DEFINE w == Written(LPerson(v), PersonFields)
<1>1. LPerson(v) = [id |-> v.id, build |-> v.build, folder |-> Directory(v.folder),
                    basedir |-> Directory(v.basedir)]
  BY DEF LPerson
<1>2. DOMAIN LPerson(v) = {"id", "build", "folder", "basedir"}
  BY <1>1
<1>3. /\ w.id = v.id /\ w.build = v.build /\ w.folder = Directory(v.folder)
      /\ w.basedir = Directory(v.basedir) /\ w.fields = PersonFields
  BY <1>1, <1>2 DEF Written
<1>4. v.folder \in Paths /\ v.basedir \in Paths
  BY DEF Humans
<1>5. /\ Directory(w.folder) = Directory(v.folder)
      /\ Directory(w.basedir) = Directory(v.basedir)
  BY <1>3, <1>4, DirectoryType
<1>6. LPerson(w) = [id |-> w.id, build |-> w.build, folder |-> Directory(w.folder),
                    basedir |-> Directory(w.basedir)]
  BY DEF LPerson
<1> QED
  BY <1>1, <1>3, <1>5, <1>6

LEMMA OptionsAreReadBack ==
  ASSUME NEW d \in Documents
  PROVE  Ljdgconfig(Written(Ljdgconfig(d.config),
                            {"logdir", "basedir", "timeLimit", "buildTimeLimit"}))
           = Ljdgconfig(d.config)
<1> DEFINE c == Ljdgconfig(d.config)
           names == {"logdir", "basedir", "timeLimit", "buildTimeLimit"}
           w == Written(c, names)
<1>1. c \in Options
  BY OptionsType
<1>2. DOMAIN c = names
  BY DEF Ljdgconfig
<1>3. /\ w.logdir = c.logdir /\ w.basedir = c.basedir /\ w.timeLimit = c.timeLimit
      /\ w.buildTimeLimit = c.buildTimeLimit /\ w.fields = names
  <2> HIDE DEF c
  <2> QED
    BY <1>2 DEF Written
<1>4. Directory(c.basedir) = c.basedir
  <2>1. d.config.basedir \in Paths
    BY DEF Documents
  <2>2. Directory(Directory(d.config.basedir)) = Directory(d.config.basedir)
    BY <2>1, DirectoryType
  <2>3. Directory(Here) = Here
    BY DEF Directory
  <2> QED
    BY <2>2, <2>3 DEF Ljdgconfig
<1>5. Limit(w, "timeLimit", w.timeLimit, 3) = c.timeLimit
  <2> HIDE DEF c, w
  <2> QED
    BY <1>1, <1>3 DEF Limit, Options
<1>6. Limit(w, "buildTimeLimit", w.buildTimeLimit, 10) = c.buildTimeLimit
  <2> HIDE DEF c, w
  <2> QED
    BY <1>1, <1>3 DEF Limit, Options
<1>7. c = [logdir |-> c.logdir, basedir |-> c.basedir, timeLimit |-> c.timeLimit,
           buildTimeLimit |-> c.buildTimeLimit]
  <2> HIDE DEF c
  <2> QED
    BY <1>1 DEF Options
<1>8. Ljdgconfig(w) = [logdir |-> w.logdir, basedir |-> Directory(w.basedir),
                       timeLimit |-> Limit(w, "timeLimit", w.timeLimit, 3),
                       buildTimeLimit |-> Limit(w, "buildTimeLimit", w.buildTimeLimit, 10)]
  <2> HIDE DEF c, w
  <2> QED
    BY <1>3 DEF Ljdgconfig
<1> HIDE DEF c, w
<1> QED
  BY <1>3, <1>4, <1>5, <1>6, <1>7, <1>8 DEF c, w

\* The persons of a document: the judger, then the players.
Someone(d, k) == IF k = 0 THEN d.judger ELSE d.players[k]

LEMMA SomeoneType ==
  ASSUME NEW d \in Documents, NEW k \in 0 .. Len(d.players)
  PROVE  /\ Someone(d, k) \in Humans
         /\ LGameInfo(d).persons[k] = LPerson(Someone(d, k))
         /\ LGameInfo(d).persons[k] \in People
<1>1. d.judger \in Humans /\ d.players \in Seq(Humans)
  BY DEF Documents
<1>2. Someone(d, k) \in Humans
  BY <1>1 DEF Someone
<1>3. LGameInfo(d).persons[k] = LPerson(Someone(d, k))
  BY DEF LGameInfo, Someone
<1> QED
  BY <1>2, <1>3, LPersonType

Games(last) == [persons : [0 .. last -> People], config : Options]

LEMMA GameType ==
  ASSUME NEW d \in Documents
  PROVE  LGameInfo(d) \in Games(Len(d.players))
<1>1. LGameInfo(d).persons \in [0 .. Len(d.players) -> People]
  BY SomeoneType DEF LGameInfo
<1>2. LGameInfo(d).config \in Options
  BY OptionsType DEF LGameInfo
<1>3. LGameInfo(d) = [persons |-> LGameInfo(d).persons, config |-> LGameInfo(d).config]
  BY DEF LGameInfo
<1> QED
  BY <1>1, <1>2, <1>3 DEF Games

\* A document as the daemon writes it: whom it names, and that it is accepted.
LEMMA DaemonsDocument ==
  ASSUME NEW d \in Documents
  PROVE  LET info0 == LGameInfo(d)
             w == ToString(info0)
         IN  /\ Accepted(w)
             /\ Len(w.players) = Len(d.players)
             /\ w.config = Written(info0.config,
                                   {"logdir", "basedir", "timeLimit", "buildTimeLimit"})
             /\ \A k \in 0 .. Len(d.players) :
                  Someone(w, k) = Written(info0.persons[k], PersonFields)
<1> DEFINE info0 == LGameInfo(d)
           w == ToString(info0)
           n == Len(d.players)
<1>1. n \in Nat /\ DOMAIN info0.persons = 0 .. n
  BY GameType DEF Games, Documents
<1>2. Cardinality(DOMAIN info0.persons) - 1 = n
  <2>1. Cardinality(0 .. n) = n - 0 + 1
    BY <1>1, FS_Interval
  <2> QED
    BY <1>1, <2>1
<1>3. w = [kind |-> "object", fields |-> GameFields,
           judger |-> Written(info0.persons[0], PersonFields),
           players |-> [k \in 1 .. n |-> Written(info0.persons[k], PersonFields)],
           config |-> Written(info0.config, {"logdir", "basedir", "timeLimit", "buildTimeLimit"})]
  <2> HIDE DEF info0, n
  <2> QED
    BY <1>2 DEF ToString, Written
<1>4. \A k \in 0 .. n : Written(info0.persons[k], PersonFields).fields = PersonFields
  <2> TAKE k \in 0 .. n
  <2>1. Someone(d, k) \in Humans /\ info0.persons[k] = LPerson(Someone(d, k))
    BY SomeoneType
  <2> QED
    BY <2>1, PersonIsReadBack
<1> HIDE DEF info0, w, n
<1>5. /\ w.kind = "object" /\ w.fields = GameFields
      /\ w.judger = Written(info0.persons[0], PersonFields)
      /\ w.players = [k \in 1 .. n |-> Written(info0.persons[k], PersonFields)]
      /\ w.config = Written(info0.config, {"logdir", "basedir", "timeLimit", "buildTimeLimit"})
  BY <1>3
<1>6. DOMAIN w.players = 1 .. n /\ Len(w.players) = n
  BY <1>1, <1>5
<1>7. \A k \in 0 .. n : Someone(w, k) = Written(info0.persons[k], PersonFields)
  BY <1>5 DEF Someone
<1>8. \A v \in {w.judger} \cup {w.players[k] : k \in DOMAIN w.players} : v.fields = PersonFields
  <2>1. w.judger.fields = PersonFields
    BY <1>1, <1>4, <1>5
  <2>2. \A k \in DOMAIN w.players : w.players[k].fields = PersonFields
    BY <1>1, <1>4, <1>5, <1>6
  <2> QED
    BY <2>1, <2>2
<1>9. Accepted(w)
  BY <1>5, <1>8 DEF Accepted
<1> QED
  BY <1>5, <1>6, <1>7, <1>9 DEF info0, w, n

LEMMA GameIsReadBack ==
  ASSUME NEW d \in Documents
  PROVE  LGameInfo(ToString(LGameInfo(d))) = LGameInfo(d)
<1> DEFINE info0 == LGameInfo(d)
           w == ToString(info0)
           n == Len(d.players)
<1>1. Len(w.players) = n
  BY DaemonsDocument
<1>2. \A k \in 0 .. n : LPerson(Someone(w, k)) = info0.persons[k]
  <2> TAKE k \in 0 .. n
  <2>1. Someone(w, k) = Written(info0.persons[k], PersonFields)
    BY DaemonsDocument
  <2>2. Someone(d, k) \in Humans /\ info0.persons[k] = LPerson(Someone(d, k))
    BY SomeoneType
  <2> HIDE DEF info0, w, n
  <2> QED
    BY <2>1, <2>2, PersonIsReadBack
<1>3. Ljdgconfig(w.config) = info0.config
  <2>1. w.config = Written(info0.config, {"logdir", "basedir", "timeLimit", "buildTimeLimit"})
    BY DaemonsDocument
  <2>2. info0.config = Ljdgconfig(d.config)
    BY DEF LGameInfo
  <2> HIDE DEF info0, w
  <2> QED
    BY <2>1, <2>2, OptionsAreReadBack
<1>4. info0.persons = [k \in 0 .. n |-> info0.persons[k]]
  BY GameType DEF Games
<1>5. info0 = [persons |-> info0.persons, config |-> info0.config]
  BY DEF LGameInfo
<1>6. LGameInfo(w) = [persons |-> [k \in 0 .. Len(w.players) |-> LPerson(Someone(w, k))],
                      config |-> Ljdgconfig(w.config)]
  <2> HIDE DEF w
  <2> QED
    BY DEF LGameInfo, Someone
<1> HIDE DEF info0, w, n
<1>7. [k \in 0 .. Len(w.players) |-> LPerson(Someone(w, k))] = [k \in 0 .. n |-> info0.persons[k]]
  BY <1>1, <1>2
<1> QED
  BY <1>3, <1>4, <1>5, <1>6, <1>7 DEF info0, w

\* Whoever calls: what is read is what was posted.
LEMMA ReadsPosted ==
  ASSUME Posted
  PROVE  /\ json \in Documents
         /\ info = LGameInfo(json)
         /\ info \in Games(Last)
         /\ Accepted(Input) <=> Accepted(json)
         /\ Persons = 0 .. Last
         /\ Last \in Nat
<1>1. json \in Documents
  BY Given DEF Posted
<1>2. info = LGameInfo(json) /\ (Accepted(Input) <=> Accepted(json))
  <2>1. CASE source.from = "daemon"
    BY <1>1, <2>1, GameIsReadBack, DaemonsDocument DEF Posted, Input, info
  <2>2. CASE source.from # "daemon"
    BY <2>2 DEF Input, info
  <2> QED
    BY <2>1, <2>2
<1>3. info \in Games(Last)
  BY <1>1, <1>2, GameType DEF Last
<1>4. Last \in Nat
  BY <1>1 DEF Last, Documents
<1> QED
  BY <1>1, <1>2, <1>3, <1>4 DEF Persons, Games

\* Nothing that is read changes.
LEMMA SameGame ==
  ASSUME UNCHANGED <<json, source>>
  PROVE  /\ Input' = Input /\ info' = info /\ Last' = Last
         /\ config' = config /\ Persons' = Persons
         /\ Posted' = Posted /\ Documented' = Documented
         /\ Accepted(json)' = Accepted(json)
BY DEF Input, info, Last, config, Persons, Posted, Documented

\* What a well-formed document makes of the places of the model.
LEMMA Terrain ==
  ASSUME Posted
  PROVE  /\ config \in Options
         /\ Home \in Locations
         /\ Root(info) = Resolve(Home, config.basedir)
         /\ Root(info) \in Locations
         /\ \A p \in 0 .. Last :
              /\ info.persons[p] \in People
              /\ Site(info, p) \in Locations
              /\ Folder(info, p) \in Locations
<1>1. info \in Games(Last)
  BY ReadsPosted
<1>2. config \in Options
  BY <1>1 DEF Games, config
<1>3. Home \in Locations
  BY Given DEF Locations
<1>4. Root(info) = Resolve(Home, config.basedir)
  BY DEF Root, config
<1>5. Root(info) \in Locations
  BY <1>2, <1>3, <1>4, ResolveType DEF Options
<1>6. \A p \in 0 .. Last : info.persons[p] \in People
  BY <1>1 DEF Games
<1>7. ASSUME NEW p \in 0 .. Last
      PROVE  Site(info, p) \in Locations /\ Folder(info, p) \in Locations
  <2>1. info.persons[p].basedir \in Paths /\ info.persons[p].folder \in Paths
    BY <1>6 DEF People
  <2>2. Site(info, p) \in Locations
    BY <1>5, <2>1, ResolveType DEF Site
  <2> QED
    BY <2>1, <2>2, ResolveType DEF Folder
<1> QED
  BY <1>2, <1>3, <1>4, <1>5, <1>6, <1>7

-----------------------------------------------------------------------------
(* Every step keeps the invariant.                                         *)

\* No step changes the document or who posted it.
LEMMA StepKeepsGame ==
  ASSUME Next
  PROVE  UNCHANGED <<json, source>>
BY DEF Next, Build, Run,
       BuildCannotStart, BuildFails, BuildLeaves, BuildReads, BuildSucceeds, ChildBlocks,
       ChildEnds, Joins, LaunchThrows, Launches, MakeFolder, MakeLogdir, Moves, OrphanEnds,
       PersonFails, ReaderAborts, Refused, Reports, RunChecks, RunOpens, RunReads, RunStarts,
       SkipBuild, StartBuild, TimesOut, Unwinds, WaiterReaps, buildFrame, childFrame, loopFrame,
       madeFrame, runFrame, unchangedByChild

\* The end of the body of the loop: the next person, or the end of the loop.
LEMMA TurnEnds ==
  ASSUME Persons = 0 .. Last, Last \in Nat, who \in 0 .. Last, NextPerson
  PROVE  /\ who' \in 0 .. Last
         /\ \/ pc' = "person" /\ 0 .. who' - 1 = 0 .. who
            \/ pc' = "built" /\ 0 .. who = 0 .. Last
         /\ child' = "none" /\ reaped' = FALSE /\ orphan' = FALSE
BY DEF NextPerson

LEMMA OneMore ==
  ASSUME NEW n \in Nat
  PROVE  (0 .. n - 1) \cup {n} = 0 .. n
OBVIOUS

\* What the system refuses is counted.
LEMMA Counted ==
  ASSUME errors \in 0 .. MaxErrors, Refused
  PROVE  errors' \in 0 .. MaxErrors
BY Given DEF Refused

\* The places of the person whose turn it is.
LEMMA TurnsPlaces ==
  ASSUME Posted, who \in 0 .. Last
  PROVE  /\ Basedir = Site(info, who)
         /\ Resolve(Basedir, person.folder) = Folder(info, who)
         /\ Basedir \in Locations
         /\ Resolve(Basedir, person.folder) \in Locations
<1>1. Basedir = Site(info, who)
  BY DEF Basedir, Site, Root, config, person
<1>2. Resolve(Basedir, person.folder) = Folder(info, who)
  BY <1>1 DEF Folder, person
<1> QED
  BY <1>1, <1>2, Terrain

\* The control state and the counters keep their types.
LEMMA ControlStep ==
  ASSUME IInv, Next
  PROVE  Control'
<1>a. /\ Persons = 0 .. Last /\ Last \in Nat /\ 0 \in 0 .. Last
      /\ Last' = Last /\ info' = info /\ config' = config /\ Input' = Input
      /\ Accepted(Input) <=> Accepted(json)
      /\ Accepted(json)' = Accepted(json) /\ Documented' = Documented
  BY StepKeepsGame, ReadsPosted, SameGame DEF IInv
<1>b. Posted /\ who \in 0 .. Last /\ errors \in 0 .. MaxErrors
  BY DEF IInv, Control
<1> USE <1>a, <1>b
<1> USE DEF IInv, Control
<1>1. CASE BuildReads
  BY <1>1 DEF InBuild, InRun, Running, BuildReads, BuildLeaves, buildFrame, childFrame, madeFrame
<1>2. CASE ReaderAborts
  BY <1>2 DEF InBuild, InRun, Running, ReaderAborts, buildFrame, childFrame, madeFrame
<1>3. CASE MakeLogdir
  BY <1>3, Counted DEF InBuild, InRun, Running, MakeLogdir, BuildLeaves, buildFrame, childFrame
<1>4. CASE PersonFails
  BY <1>4, TurnEnds, Counted DEF InBuild, InRun, Running, PersonFails, buildFrame
<1>5. CASE SkipBuild
  BY <1>5, TurnEnds DEF InBuild, InRun, Running, SkipBuild, MakeFolder, buildFrame
<1>6. CASE StartBuild
  BY <1>6 DEF InBuild, InRun, Running, StartBuild, MakeFolder, buildFrame
<1>7. CASE BuildCannotStart
  BY <1>7, TurnEnds, Counted DEF InBuild, InRun, Running, BuildCannotStart, MakeFolder, buildFrame
<1>8. CASE \E code \in {"exited 0", "exited 1"} : ChildEnds(code)
  BY <1>8 DEF InBuild, InRun, Running, ChildEnds, unchangedByChild, buildFrame
<1>9. CASE ChildBlocks
  BY <1>9 DEF InBuild, InRun, Running, ChildBlocks, unchangedByChild, buildFrame
<1>10. CASE OrphanEnds
  BY <1>10 DEF InBuild, InRun, Running, OrphanEnds, unchangedByChild, buildFrame
<1>11. CASE WaiterReaps
  BY <1>11 DEF InBuild, InRun, Running, WaiterReaps, unchangedByChild, buildFrame
<1>12. CASE BuildSucceeds
  BY <1>12, TurnEnds DEF InBuild, InRun, Running, BuildSucceeds, loopFrame, buildFrame, madeFrame
<1>13. CASE BuildFails
  BY <1>13 DEF InBuild, InRun, Running, BuildFails, loopFrame, buildFrame, madeFrame, childFrame
<1>14. CASE Reports
  BY <1>14, TurnEnds DEF InBuild, InRun, Running, Reports, loopFrame, buildFrame, madeFrame
<1>15. CASE TimesOut
  BY <1>15 DEF InBuild, InRun, Running, TimesOut, loopFrame, buildFrame, madeFrame
<1>16. CASE Joins
  BY <1>16, TurnEnds DEF InBuild, InRun, Running, Joins, loopFrame, buildFrame, madeFrame
<1>17. CASE RunStarts
  BY <1>17 DEF InBuild, InRun, Running, RunStarts, runFrame, childFrame, madeFrame
<1>18. CASE RunReads
  BY <1>18 DEF InBuild, InRun, Running, RunReads, Moves, runFrame, childFrame, madeFrame
<1>19. CASE RunOpens
  BY <1>19, Counted DEF InBuild, InRun, Running, RunOpens, runFrame, childFrame, madeFrame
<1>20. CASE RunChecks
  BY <1>20, Counted DEF InBuild, InRun, Running, RunChecks, Moves, runFrame, childFrame, madeFrame
<1>21. CASE Launches
  BY <1>21 DEF InBuild, InRun, Running, Launches, runFrame, childFrame, madeFrame
<1>22. CASE LaunchThrows
  BY <1>22, Counted DEF InBuild, InRun, Running, LaunchThrows, runFrame, childFrame, madeFrame
<1>23. CASE Unwinds
  BY <1>23 DEF InBuild, InRun, Running, Unwinds, runFrame, childFrame, madeFrame
<1> QED
  BY <1>1, <1>2, <1>3, <1>4, <1>5, <1>6, <1>7, <1>8, <1>9, <1>10, <1>11, <1>12, <1>13, <1>14,
     <1>15, <1>16, <1>17, <1>18, <1>19, <1>20, <1>21, <1>22, <1>23 DEF Next, Build, Run

\* Who is up is told by where liujdg.run is.
LEMMA LaunchedStep ==
  ASSUME IInv, Next
  PROVE  Launched'
<1>a. /\ Persons = 0 .. Last /\ Last \in Nat /\ 0 \in 0 .. Last
      /\ Last' = Last /\ info' = info /\ config' = config /\ Input' = Input
      /\ Accepted(Input) <=> Accepted(json)
      /\ Accepted(json)' = Accepted(json) /\ Documented' = Documented
  BY StepKeepsGame, ReadsPosted, SameGame DEF IInv
<1>b. Posted /\ who \in 0 .. Last /\ errors \in 0 .. MaxErrors
  BY DEF IInv, Control
<1> USE <1>a, <1>b
<1> USE DEF IInv, Launched
<1> USE OneMore
<1>1. CASE BuildReads
  BY <1>1 DEF InBuild, InRun, BuildReads, BuildLeaves, buildFrame, childFrame, madeFrame
<1>2. CASE ReaderAborts
  BY <1>2 DEF InBuild, InRun, ReaderAborts, buildFrame, childFrame, madeFrame
<1>3. CASE MakeLogdir
  BY <1>3, Counted DEF InBuild, InRun, MakeLogdir, BuildLeaves, buildFrame, childFrame
<1>4. CASE PersonFails
  BY <1>4, TurnEnds, Counted DEF InBuild, InRun, PersonFails, buildFrame
<1>5. CASE SkipBuild
  BY <1>5, TurnEnds DEF InBuild, InRun, SkipBuild, MakeFolder, buildFrame
<1>6. CASE StartBuild
  BY <1>6 DEF InBuild, InRun, StartBuild, MakeFolder, buildFrame
<1>7. CASE BuildCannotStart
  BY <1>7, TurnEnds, Counted DEF InBuild, InRun, BuildCannotStart, MakeFolder, buildFrame
<1>8. CASE \E code \in {"exited 0", "exited 1"} : ChildEnds(code)
  BY <1>8 DEF InBuild, InRun, ChildEnds, unchangedByChild, buildFrame
<1>9. CASE ChildBlocks
  BY <1>9 DEF InBuild, InRun, ChildBlocks, unchangedByChild, buildFrame
<1>10. CASE OrphanEnds
  BY <1>10 DEF InBuild, InRun, OrphanEnds, unchangedByChild, buildFrame
<1>11. CASE WaiterReaps
  BY <1>11 DEF InBuild, InRun, WaiterReaps, unchangedByChild, buildFrame
<1>12. CASE BuildSucceeds
  BY <1>12, TurnEnds DEF InBuild, InRun, BuildSucceeds, loopFrame, buildFrame, madeFrame
<1>13. CASE BuildFails
  BY <1>13 DEF InBuild, InRun, BuildFails, loopFrame, buildFrame, madeFrame, childFrame
<1>14. CASE Reports
  BY <1>14, TurnEnds DEF InBuild, InRun, Reports, loopFrame, buildFrame, madeFrame
<1>15. CASE TimesOut
  BY <1>15 DEF InBuild, InRun, TimesOut, loopFrame, buildFrame, madeFrame
<1>16. CASE Joins
  BY <1>16, TurnEnds DEF InBuild, InRun, Joins, loopFrame, buildFrame, madeFrame
<1>17. CASE RunStarts
  BY <1>17 DEF InBuild, InRun, RunStarts, runFrame, childFrame, madeFrame
<1>18. CASE RunReads
  BY <1>18 DEF InBuild, InRun, RunReads, Moves, runFrame, childFrame, madeFrame
<1>19. CASE RunOpens
  BY <1>19, Counted DEF InBuild, InRun, RunOpens, runFrame, childFrame, madeFrame
<1>20. CASE RunChecks
  BY <1>20, Counted DEF InBuild, InRun, RunChecks, Moves, runFrame, childFrame, madeFrame
<1>21. CASE Launches
  BY <1>21 DEF InBuild, InRun, Launches, runFrame, childFrame, madeFrame
<1>22. CASE LaunchThrows
  BY <1>22, Counted DEF InBuild, InRun, LaunchThrows, runFrame, childFrame, madeFrame
<1>23. CASE Unwinds
  BY <1>23 DEF InBuild, InRun, Unwinds, runFrame, childFrame, madeFrame
<1> QED
  BY <1>1, <1>2, <1>3, <1>4, <1>5, <1>6, <1>7, <1>8, <1>9, <1>10, <1>11, <1>12, <1>13, <1>14,
     <1>15, <1>16, <1>17, <1>18, <1>19, <1>20, <1>21, <1>22, <1>23 DEF Next, Build, Run

\* The loop of liujdg.build comes to every person in turn.
LEMMA TurnsStep ==
  ASSUME IInv, Next
  PROVE  Turns'
<1>a. /\ Persons = 0 .. Last /\ Last \in Nat /\ 0 \in 0 .. Last
      /\ Last' = Last /\ info' = info /\ config' = config /\ Input' = Input
      /\ Accepted(Input) <=> Accepted(json)
      /\ Accepted(json)' = Accepted(json) /\ Documented' = Documented
  BY StepKeepsGame, ReadsPosted, SameGame DEF IInv
<1>b. Posted /\ who \in 0 .. Last /\ errors \in 0 .. MaxErrors
  BY DEF IInv, Control
<1> USE <1>a, <1>b
<1> USE DEF IInv, Control, Turns, Child
<1> USE OneMore
<1>1. CASE BuildReads
  BY <1>1 DEF InBuild, InRun, BuildReads, BuildLeaves, buildFrame, childFrame, madeFrame
<1>2. CASE ReaderAborts
  BY <1>2 DEF InBuild, InRun, ReaderAborts, buildFrame, childFrame, madeFrame
<1>3. CASE MakeLogdir
  BY <1>3, Counted DEF InBuild, InRun, MakeLogdir, BuildLeaves, buildFrame, childFrame
<1>4. CASE PersonFails
  BY <1>4, TurnEnds, Counted DEF InBuild, InRun, PersonFails, buildFrame
<1>5. CASE SkipBuild
  <2>1. pc = "person" /\ tried' = tried \cup {who}
    BY <1>5 DEF SkipBuild, MakeFolder
  <2>2. tried = 0 .. who - 1
    BY <2>1 DEF IInv, Turns
  <2>3. tried' = 0 .. who
    BY <2>1, <2>2
  <2> QED
    BY <1>5, <2>3, TurnEnds DEF InBuild, InRun, SkipBuild
<1>6. CASE StartBuild
  <2>1. pc = "person" /\ tried' = tried \cup {who}
    BY <1>6 DEF StartBuild, MakeFolder
  <2>2. tried = 0 .. who - 1
    BY <2>1 DEF IInv, Turns
  <2>3. tried' = 0 .. who
    BY <2>1, <2>2
  <2> QED
    BY <1>6, <2>3 DEF InBuild, InRun, StartBuild
<1>7. CASE BuildCannotStart
  <2>1. pc = "person" /\ tried' = tried \cup {who}
    BY <1>7 DEF BuildCannotStart, MakeFolder
  <2>2. tried = 0 .. who - 1
    BY <2>1 DEF IInv, Turns
  <2>3. tried' = 0 .. who
    BY <2>1, <2>2
  <2> QED
    BY <1>7, <2>3, TurnEnds DEF InBuild, InRun, BuildCannotStart
<1>8. CASE \E code \in {"exited 0", "exited 1"} : ChildEnds(code)
  BY <1>8 DEF InBuild, InRun, ChildEnds, unchangedByChild, buildFrame
<1>9. CASE ChildBlocks
  BY <1>9 DEF InBuild, InRun, ChildBlocks, unchangedByChild, buildFrame
<1>10. CASE OrphanEnds
  BY <1>10 DEF InBuild, InRun, OrphanEnds, unchangedByChild, buildFrame
<1>11. CASE WaiterReaps
  BY <1>11 DEF InBuild, InRun, WaiterReaps, unchangedByChild, buildFrame
<1>12. CASE BuildSucceeds
  BY <1>12, TurnEnds DEF InBuild, InRun, BuildSucceeds, loopFrame, buildFrame, madeFrame
<1>13. CASE BuildFails
  BY <1>13 DEF InBuild, InRun, BuildFails, loopFrame, buildFrame, madeFrame, childFrame
<1>14. CASE Reports
  BY <1>14, TurnEnds DEF InBuild, InRun, Reports, loopFrame, buildFrame, madeFrame
<1>15. CASE TimesOut
  BY <1>15 DEF InBuild, InRun, TimesOut, loopFrame, buildFrame, madeFrame
<1>16. CASE Joins
  BY <1>16, TurnEnds DEF InBuild, InRun, Joins, loopFrame, buildFrame, madeFrame
<1>17. CASE RunStarts
  BY <1>17 DEF InBuild, InRun, RunStarts, runFrame, childFrame, madeFrame
<1>18. CASE RunReads
  BY <1>18 DEF InBuild, InRun, RunReads, Moves, runFrame, childFrame, madeFrame
<1>19. CASE RunOpens
  BY <1>19, Counted DEF InBuild, InRun, RunOpens, runFrame, childFrame, madeFrame
<1>20. CASE RunChecks
  BY <1>20, Counted DEF InBuild, InRun, RunChecks, Moves, runFrame, childFrame, madeFrame
<1>21. CASE Launches
  BY <1>21 DEF InBuild, InRun, Launches, runFrame, childFrame, madeFrame
<1>22. CASE LaunchThrows
  BY <1>22, Counted DEF InBuild, InRun, LaunchThrows, runFrame, childFrame, madeFrame
<1>23. CASE Unwinds
  BY <1>23 DEF InBuild, InRun, Unwinds, runFrame, childFrame, madeFrame
<1> QED
  BY <1>1, <1>2, <1>3, <1>4, <1>5, <1>6, <1>7, <1>8, <1>9, <1>10, <1>11, <1>12, <1>13, <1>14,
     <1>15, <1>16, <1>17, <1>18, <1>19, <1>20, <1>21, <1>22, <1>23 DEF Next, Build, Run

\* The child is that of the turn.
LEMMA ChildStep ==
  ASSUME IInv, Next
  PROVE  Child'
<1>a. /\ Persons = 0 .. Last /\ Last \in Nat /\ 0 \in 0 .. Last
      /\ Last' = Last /\ info' = info /\ config' = config /\ Input' = Input
      /\ Accepted(Input) <=> Accepted(json)
      /\ Accepted(json)' = Accepted(json) /\ Documented' = Documented
  BY StepKeepsGame, ReadsPosted, SameGame DEF IInv
<1>b. Posted /\ who \in 0 .. Last /\ errors \in 0 .. MaxErrors
  BY DEF IInv, Control
<1> USE <1>a, <1>b
<1> USE DEF IInv, Control, Child, Histories
<1>1. CASE BuildReads
  BY <1>1 DEF InBuild, InRun, Running, BuildReads, BuildLeaves, buildFrame, childFrame, madeFrame
<1>2. CASE ReaderAborts
  BY <1>2 DEF InBuild, InRun, Running, ReaderAborts, buildFrame, childFrame, madeFrame
<1>3. CASE MakeLogdir
  BY <1>3, Counted DEF InBuild, InRun, Running, MakeLogdir, BuildLeaves, buildFrame, childFrame
<1>4. CASE PersonFails
  BY <1>4, TurnEnds, Counted DEF InBuild, InRun, Running, PersonFails, buildFrame
<1>5. CASE SkipBuild
  BY <1>5, TurnEnds DEF InBuild, InRun, Running, SkipBuild, MakeFolder, buildFrame
<1>6. CASE StartBuild
  BY <1>6 DEF InBuild, InRun, Running, StartBuild, MakeFolder, buildFrame
<1>7. CASE BuildCannotStart
  BY <1>7, TurnEnds, Counted DEF InBuild, InRun, Running, BuildCannotStart, MakeFolder, buildFrame
<1>8. CASE \E code \in {"exited 0", "exited 1"} : ChildEnds(code)
  BY <1>8 DEF InBuild, InRun, Running, ChildEnds, unchangedByChild, buildFrame
<1>9. CASE ChildBlocks
  BY <1>9 DEF InBuild, InRun, Running, ChildBlocks, unchangedByChild, buildFrame
<1>10. CASE OrphanEnds
  BY <1>10 DEF InBuild, InRun, Running, OrphanEnds, unchangedByChild, buildFrame
<1>11. CASE WaiterReaps
  BY <1>11 DEF InBuild, InRun, Running, WaiterReaps, unchangedByChild, buildFrame
<1>12. CASE BuildSucceeds
  BY <1>12, TurnEnds DEF InBuild, InRun, Running, BuildSucceeds, loopFrame, buildFrame, madeFrame
<1>13. CASE BuildFails
  BY <1>13 DEF InBuild, InRun, Running, BuildFails, loopFrame, buildFrame, madeFrame, childFrame
<1>14. CASE Reports
  BY <1>14, TurnEnds DEF InBuild, InRun, Running, Reports, loopFrame, buildFrame, madeFrame
<1>15. CASE TimesOut
  BY <1>15 DEF InBuild, InRun, Running, TimesOut, loopFrame, buildFrame, madeFrame
<1>16. CASE Joins
  BY <1>16, TurnEnds DEF InBuild, InRun, Running, Joins, loopFrame, buildFrame, madeFrame
<1>17. CASE RunStarts
  BY <1>17 DEF InBuild, InRun, Running, RunStarts, runFrame, childFrame, madeFrame
<1>18. CASE RunReads
  BY <1>18 DEF InBuild, InRun, Running, RunReads, Moves, runFrame, childFrame, madeFrame
<1>19. CASE RunOpens
  BY <1>19, Counted DEF InBuild, InRun, Running, RunOpens, runFrame, childFrame, madeFrame
<1>20. CASE RunChecks
  BY <1>20, Counted DEF InBuild, InRun, Running, RunChecks, Moves, runFrame, childFrame, madeFrame
<1>21. CASE Launches
  BY <1>21 DEF InBuild, InRun, Running, Launches, runFrame, childFrame, madeFrame
<1>22. CASE LaunchThrows
  BY <1>22, Counted DEF InBuild, InRun, Running, LaunchThrows, runFrame, childFrame, madeFrame
<1>23. CASE Unwinds
  BY <1>23 DEF InBuild, InRun, Running, Unwinds, runFrame, childFrame, madeFrame
<1> QED
  BY <1>1, <1>2, <1>3, <1>4, <1>5, <1>6, <1>7, <1>8, <1>9, <1>10, <1>11, <1>12, <1>13, <1>14,
     <1>15, <1>16, <1>17, <1>18, <1>19, <1>20, <1>21, <1>22, <1>23 DEF Next, Build, Run

\* The histories keep their types.
LEMMA HistoriesStep ==
  ASSUME IInv, Next
  PROVE  Histories'
<1>a. /\ Persons = 0 .. Last /\ Last \in Nat /\ 0 \in 0 .. Last
      /\ Last' = Last /\ info' = info /\ config' = config /\ Input' = Input
      /\ Accepted(Input) <=> Accepted(json)
      /\ Accepted(json)' = Accepted(json) /\ Documented' = Documented
  BY StepKeepsGame, ReadsPosted, SameGame DEF IInv
<1>b. Posted /\ who \in 0 .. Last /\ errors \in 0 .. MaxErrors
  BY DEF IInv, Control
<1> USE <1>a, <1>b
<1> USE DEF IInv, Histories
<1> USE TurnsPlaces
<1>1. CASE BuildReads
  BY <1>1 DEF InBuild, BuildReads, BuildLeaves, buildFrame, childFrame, madeFrame
<1>2. CASE ReaderAborts
  BY <1>2 DEF InBuild, ReaderAborts, buildFrame, childFrame, madeFrame
<1>3. CASE MakeLogdir
  BY <1>3, Counted DEF InBuild, MakeLogdir, BuildLeaves, buildFrame, childFrame
<1>4. CASE PersonFails
  BY <1>4, TurnEnds, Counted DEF InBuild, PersonFails, buildFrame
<1>5. CASE SkipBuild
  BY <1>5, TurnEnds DEF InBuild, SkipBuild, MakeFolder, buildFrame
<1>6. CASE StartBuild
  BY <1>6 DEF InBuild, StartBuild, MakeFolder, buildFrame
<1>7. CASE BuildCannotStart
  BY <1>7, TurnEnds, Counted DEF InBuild, BuildCannotStart, MakeFolder, buildFrame
<1>8. CASE \E code \in {"exited 0", "exited 1"} : ChildEnds(code)
  <2>1. PICK code \in {"exited 0", "exited 1"} : ChildEnds(code)
    BY <1>8
  <2>2. code \in Outcomes
    BY DEF Outcomes
  <2>3. ended' = [ended EXCEPT ![who] = code]
    BY <2>1 DEF ChildEnds
  <2>4. ended' \in [0 .. Last -> Outcomes]
    BY <2>2, <2>3
  <2>5. UNCHANGED <<tried, made, built, started, up>>
    BY <2>1 DEF ChildEnds, unchangedByChild, buildFrame
  <2> QED
    BY <2>4, <2>5
<1>9. CASE ChildBlocks
  BY <1>9 DEF InBuild, ChildBlocks, unchangedByChild, buildFrame
<1>10. CASE OrphanEnds
  BY <1>10 DEF InBuild, OrphanEnds, unchangedByChild, buildFrame
<1>11. CASE WaiterReaps
  BY <1>11 DEF InBuild, WaiterReaps, unchangedByChild, buildFrame
<1>12. CASE BuildSucceeds
  BY <1>12, TurnEnds DEF InBuild, BuildSucceeds, loopFrame, buildFrame, madeFrame
<1>13. CASE BuildFails
  BY <1>13 DEF InBuild, BuildFails, loopFrame, buildFrame, madeFrame, childFrame
<1>14. CASE Reports
  BY <1>14, TurnEnds DEF InBuild, Reports, loopFrame, buildFrame, madeFrame
<1>15. CASE TimesOut
  BY <1>15 DEF InBuild, TimesOut, loopFrame, buildFrame, madeFrame
<1>16. CASE Joins
  BY <1>16, TurnEnds DEF InBuild, Joins, loopFrame, buildFrame, madeFrame
<1>17. CASE RunStarts
  BY <1>17 DEF InBuild, RunStarts, runFrame, childFrame, madeFrame
<1>18. CASE RunReads
  BY <1>18 DEF InBuild, RunReads, Moves, runFrame, childFrame, madeFrame
<1>19. CASE RunOpens
  BY <1>19, Counted DEF InBuild, RunOpens, runFrame, childFrame, madeFrame
<1>20. CASE RunChecks
  BY <1>20, Counted DEF InBuild, RunChecks, Moves, runFrame, childFrame, madeFrame
<1>21. CASE Launches
  <2> DEFINE at == Resolve(cwd, person.basedir)
             sight == [at |-> at, sees |-> Whitelist]
  <2>1. at \in Locations
    BY <1>21 DEF Launches, IInv, Whereabouts
  <2>2. at \o person.folder.names \in Locations
    <3>1. person.folder.names \in Seq(STRING)
      BY Terrain DEF person, People, Paths
    <3> QED
      BY <2>1, <3>1, ConcatProperties DEF Locations
  <2>3. Whitelist = {at, at \o person.folder.names}
    BY DEF Whitelist
  <2>4. Whitelist \in SUBSET Locations
    BY <2>1, <2>2, <2>3
  <2>5. sight \in Sights
    BY <2>1, <2>4 DEF Sights
  <2> HIDE DEF sight
  <2>6. started' = [started EXCEPT ![who] = sight]
    BY <1>21 DEF Launches, sight
  <2>7. started' \in [0 .. Last -> Sights]
    BY <2>5, <2>6
  <2>8. up' = up \cup {who} /\ UNCHANGED <<tried, ended, made, built>>
    BY <1>21 DEF Launches, runFrame, madeFrame
  <2> QED
    BY <2>7, <2>8
<1>22. CASE LaunchThrows
  BY <1>22, Counted DEF InBuild, LaunchThrows, runFrame, childFrame, madeFrame
<1>23. CASE Unwinds
  BY <1>23 DEF InBuild, Unwinds, runFrame, childFrame, madeFrame
<1> QED
  BY <1>1, <1>2, <1>3, <1>4, <1>5, <1>6, <1>7, <1>8, <1>9, <1>10, <1>11, <1>12, <1>13, <1>14,
     <1>15, <1>16, <1>17, <1>18, <1>19, <1>20, <1>21, <1>22, <1>23 DEF Next, Build, Run

\* Making a directory, with those above it.
LEMMA DirectoriesGrow ==
  ASSUME dirs \subseteq Locations, NEW at \in Locations, dirs' = dirs \cup Parents(at)
  PROVE  dirs \subseteq dirs' /\ dirs' \subseteq Locations /\ at \in dirs'
BY ParentsType

\* MakeFolder enters the directory of the person and makes its folder there.
LEMMA FolderIsMade ==
  ASSUME IInv, MakeFolder
  PROVE  /\ pc = "person" /\ cwd' = Site(info, who) /\ cwd' \in dirs
         /\ dirs \subseteq dirs' /\ dirs' \subseteq Locations
         /\ made' = [made EXCEPT ![who] = Folder(info, who)]
         /\ Folder(info, who) \in dirs'
         /\ tried' = tried \cup {who}
<1>1. /\ Basedir = Site(info, who)
      /\ Resolve(Basedir, person.folder) = Folder(info, who)
      /\ Resolve(Basedir, person.folder) \in Locations
  BY TurnsPlaces DEF IInv, Control
<1>2. dirs \subseteq Locations
  BY DEF IInv, Whereabouts
<1>3. dirs' = dirs \cup Parents(Resolve(Basedir, person.folder))
  BY DEF MakeFolder
<1>4. /\ dirs \subseteq dirs' /\ dirs' \subseteq Locations
      /\ Resolve(Basedir, person.folder) \in dirs'
  BY <1>1, <1>2, <1>3, DirectoriesGrow
<1> QED
  BY <1>1, <1>4 DEF MakeFolder

\* Both programs are in a directory that exists, and the first one stays.
LEMMA WhereaboutsStep ==
  ASSUME IInv, Next
  PROVE  Whereabouts'
<1>a. /\ Persons = 0 .. Last /\ Last \in Nat /\ 0 \in 0 .. Last
      /\ Last' = Last /\ info' = info /\ config' = config /\ Input' = Input
      /\ Accepted(Input) <=> Accepted(json)
      /\ Accepted(json)' = Accepted(json) /\ Documented' = Documented
  BY StepKeepsGame, ReadsPosted, SameGame DEF IInv
<1>b. Posted /\ who \in 0 .. Last /\ errors \in 0 .. MaxErrors
  BY DEF IInv, Control
<1>c. /\ config \in Options
      /\ Root(info) = Resolve(Home, config.basedir) /\ Root(info)' = Root(info)
      /\ \A p \in 0 .. Last : Site(info, p)' = Site(info, p) /\ Folder(info, p)' = Folder(info, p)
  BY <1>a, <1>b, Terrain DEF Root, Site, Folder
<1> USE <1>a, <1>b, <1>c
<1> USE DEF IInv, Whereabouts
<1>1. CASE BuildReads
  BY <1>1 DEF InBuild, InRun, BuildReads, BuildLeaves, buildFrame, childFrame, madeFrame
<1>2. CASE ReaderAborts
  BY <1>2 DEF InBuild, InRun, ReaderAborts, buildFrame, childFrame, madeFrame
<1>3. CASE MakeLogdir
  <2>1. CASE config.logdir # NoPath /\ dirs' = dirs \cup Parents(Resolve(cwd, config.logdir))
    <3>1. Resolve(cwd, config.logdir) \in Locations
      BY <2>1, ResolveType DEF Options
    <3>2. dirs \subseteq dirs' /\ dirs' \subseteq Locations
      BY <2>1, <3>1, DirectoriesGrow
    <3> QED
      BY <1>3, <3>2 DEF InBuild, InRun, MakeLogdir, BuildLeaves
  <2>2. CASE UNCHANGED dirs
    BY <1>3, <2>2 DEF InBuild, InRun, MakeLogdir, BuildLeaves
  <2> QED
    BY <1>3, <2>1, <2>2 DEF MakeLogdir
<1>4. CASE PersonFails
  BY <1>4, TurnEnds, Counted DEF InBuild, InRun, PersonFails, buildFrame
<1>5. CASE SkipBuild
  <2>1. MakeFolder
    BY <1>5 DEF SkipBuild
  <2>2. /\ pc = "person" /\ cwd' \in dirs'
        /\ dirs \subseteq dirs' /\ dirs' \subseteq Locations
    BY <2>1, FolderIsMade
  <2> QED
    BY <1>5, <2>2, TurnEnds DEF InBuild, InRun, SkipBuild, buildFrame
<1>6. CASE StartBuild
  <2>1. MakeFolder
    BY <1>6 DEF StartBuild
  <2>2. /\ pc = "person" /\ cwd' \in dirs'
        /\ dirs \subseteq dirs' /\ dirs' \subseteq Locations
    BY <2>1, FolderIsMade
  <2> QED
    BY <1>6, <2>2 DEF InBuild, InRun, StartBuild, buildFrame
<1>7. CASE BuildCannotStart
  <2>1. MakeFolder
    BY <1>7 DEF BuildCannotStart
  <2>2. /\ pc = "person" /\ cwd' \in dirs'
        /\ dirs \subseteq dirs' /\ dirs' \subseteq Locations
    BY <2>1, FolderIsMade
  <2> QED
    BY <1>7, <2>2, TurnEnds, Counted DEF InBuild, InRun, BuildCannotStart, buildFrame
<1>8. CASE \E code \in {"exited 0", "exited 1"} : ChildEnds(code)
  BY <1>8 DEF InBuild, InRun, ChildEnds, unchangedByChild, buildFrame
<1>9. CASE ChildBlocks
  BY <1>9 DEF InBuild, InRun, ChildBlocks, unchangedByChild, buildFrame
<1>10. CASE OrphanEnds
  BY <1>10 DEF InBuild, InRun, OrphanEnds, unchangedByChild, buildFrame
<1>11. CASE WaiterReaps
  BY <1>11 DEF InBuild, InRun, WaiterReaps, unchangedByChild, buildFrame
<1>12. CASE BuildSucceeds
  BY <1>12, TurnEnds DEF InBuild, InRun, BuildSucceeds, loopFrame, buildFrame, madeFrame
<1>13. CASE BuildFails
  BY <1>13 DEF InBuild, InRun, BuildFails, loopFrame, buildFrame, madeFrame, childFrame
<1>14. CASE Reports
  BY <1>14, TurnEnds DEF InBuild, InRun, Reports, loopFrame, buildFrame, madeFrame
<1>15. CASE TimesOut
  BY <1>15 DEF InBuild, InRun, TimesOut, loopFrame, buildFrame, madeFrame
<1>16. CASE Joins
  BY <1>16, TurnEnds DEF InBuild, InRun, Joins, loopFrame, buildFrame, madeFrame
<1>17. CASE RunStarts
  <2>1. Home \in dirs /\ JsonDirs \subseteq dirs
    BY Given
  <2>2. source.dir \in JsonDirs \cup {Nowhere}
    BY DEF Posted
  <2>3. cwd' \in dirs
    BY <1>17, <2>1, <2>2 DEF RunStarts
  <2> QED
    BY <1>17, <2>3 DEF InBuild, InRun, RunStarts, runFrame, childFrame, madeFrame
<1>18. CASE RunReads
  BY <1>18 DEF InBuild, InRun, RunReads, Moves, runFrame, childFrame, madeFrame
<1>19. CASE RunOpens
  BY <1>19, Counted DEF InBuild, InRun, RunOpens, runFrame, childFrame, madeFrame
<1>20. CASE RunChecks
  BY <1>20, Counted DEF InBuild, InRun, RunChecks, Moves, runFrame, childFrame, madeFrame
<1>21. CASE Launches
  BY <1>21 DEF InBuild, InRun, Launches, runFrame, childFrame, madeFrame
<1>22. CASE LaunchThrows
  BY <1>22, Counted DEF InBuild, InRun, LaunchThrows, runFrame, childFrame, madeFrame
<1>23. CASE Unwinds
  BY <1>23 DEF InBuild, InRun, Unwinds, runFrame, childFrame, madeFrame
<1> QED
  BY <1>1, <1>2, <1>3, <1>4, <1>5, <1>6, <1>7, <1>8, <1>9, <1>10, <1>11, <1>12, <1>13, <1>14,
     <1>15, <1>16, <1>17, <1>18, <1>19, <1>20, <1>21, <1>22, <1>23 DEF Next, Build, Run

LEMMA NotWell ==
  ASSUME rc' = -1
  PROVE  AllWell'
<1>1. rc' # 0
  OBVIOUS
<1> QED
  BY <1>1, Zenon DEF AllWell

\* The return code stays 0 only as long as every turn goes well.
LEMMA AllWellStep ==
  ASSUME IInv, Next
  PROVE  AllWell'
<1>a. /\ Persons = 0 .. Last /\ Last \in Nat /\ 0 \in 0 .. Last
      /\ Last' = Last /\ info' = info /\ config' = config /\ Input' = Input
      /\ Accepted(Input) <=> Accepted(json)
      /\ Accepted(json)' = Accepted(json) /\ Documented' = Documented
  BY StepKeepsGame, ReadsPosted, SameGame DEF IInv
<1>b. Posted /\ who \in 0 .. Last /\ errors \in 0 .. MaxErrors
  BY DEF IInv, Control
<1>c. /\ config \in Options
      /\ Root(info) = Resolve(Home, config.basedir) /\ Root(info)' = Root(info)
      /\ \A p \in 0 .. Last : Site(info, p)' = Site(info, p) /\ Folder(info, p)' = Folder(info, p)
  BY <1>a, <1>b, Terrain DEF Root, Site, Folder
<1> USE <1>a, <1>b, <1>c
<1> USE DEF IInv, Control, Histories, Turns, Child, AllWell
<1>1. CASE BuildReads
  BY <1>1 DEF InBuild, InRun, BuildReads, BuildLeaves, buildFrame, childFrame, madeFrame
<1>2. CASE ReaderAborts
  BY <1>2 DEF InBuild, InRun, ReaderAborts, buildFrame, childFrame, madeFrame
<1>3. CASE MakeLogdir
  BY <1>3, Counted DEF InBuild, InRun, MakeLogdir, BuildLeaves, buildFrame, childFrame
<1>4. CASE PersonFails
  <2>1. rc' = -1
    BY <1>4 DEF PersonFails
  <2> QED
    BY <2>1, NotWell
<1>5. CASE SkipBuild
  <2>1. MakeFolder
    BY <1>5 DEF SkipBuild
  <2>2. /\ pc = "person" /\ dirs \subseteq dirs'
        /\ made' = [made EXCEPT ![who] = Folder(info, who)] /\ Folder(info, who) \in dirs'
        /\ tried' = tried \cup {who}
    BY <2>1, FolderIsMade
  <2> QED
    BY <1>5, <2>2, TurnEnds DEF person, SkipBuild, buildFrame
<1>6. CASE StartBuild
  <2>1. MakeFolder
    BY <1>6 DEF StartBuild
  <2>2. /\ pc = "person" /\ dirs \subseteq dirs'
        /\ made' = [made EXCEPT ![who] = Folder(info, who)] /\ Folder(info, who) \in dirs'
        /\ tried' = tried \cup {who}
    BY <2>1, FolderIsMade
  <2> QED
    BY <1>6, <2>2 DEF person, StartBuild, buildFrame
<1>7. CASE BuildCannotStart
  <2>1. rc' = -1
    BY <1>7 DEF BuildCannotStart
  <2> QED
    BY <2>1, NotWell
<1>8. CASE \E code \in {"exited 0", "exited 1"} : ChildEnds(code)
  BY <1>8 DEF InBuild, InRun, ChildEnds, unchangedByChild, buildFrame
<1>9. CASE ChildBlocks
  BY <1>9 DEF InBuild, InRun, ChildBlocks, unchangedByChild, buildFrame
<1>10. CASE OrphanEnds
  BY <1>10 DEF InBuild, InRun, OrphanEnds, unchangedByChild, buildFrame
<1>11. CASE WaiterReaps
  BY <1>11 DEF InBuild, InRun, WaiterReaps, unchangedByChild, buildFrame
<1>12. CASE BuildSucceeds
  BY <1>12, TurnEnds DEF InBuild, InRun, BuildSucceeds, loopFrame, buildFrame, madeFrame
<1>13. CASE BuildFails
  BY <1>13 DEF InBuild, InRun, BuildFails, loopFrame, buildFrame, madeFrame, childFrame
<1>14. CASE Reports
  <2>1. rc' = -1
    BY <1>14 DEF Reports
  <2> QED
    BY <2>1, NotWell
<1>15. CASE TimesOut
  BY <1>15 DEF InBuild, InRun, TimesOut, loopFrame, buildFrame, madeFrame
<1>16. CASE Joins
  <2>1. rc' = -1
    BY <1>16 DEF Joins
  <2> QED
    BY <2>1, NotWell
<1>17. CASE RunStarts
  BY <1>17 DEF InBuild, InRun, RunStarts, runFrame, childFrame, madeFrame
<1>18. CASE RunReads
  BY <1>18 DEF InBuild, InRun, RunReads, Moves, runFrame, childFrame, madeFrame
<1>19. CASE RunOpens
  BY <1>19, Counted DEF InBuild, InRun, RunOpens, runFrame, childFrame, madeFrame
<1>20. CASE RunChecks
  BY <1>20, Counted DEF InBuild, InRun, RunChecks, Moves, runFrame, childFrame, madeFrame
<1>21. CASE Launches
  BY <1>21 DEF InBuild, InRun, Launches, runFrame, childFrame, madeFrame
<1>22. CASE LaunchThrows
  BY <1>22, Counted DEF InBuild, InRun, LaunchThrows, runFrame, childFrame, madeFrame
<1>23. CASE Unwinds
  BY <1>23 DEF InBuild, InRun, Unwinds, runFrame, childFrame, madeFrame
<1> QED
  BY <1>1, <1>2, <1>3, <1>4, <1>5, <1>6, <1>7, <1>8, <1>9, <1>10, <1>11, <1>12, <1>13, <1>14,
     <1>15, <1>16, <1>17, <1>18, <1>19, <1>20, <1>21, <1>22, <1>23 DEF Next, Build, Run

\* What is made and built is made and built where the person is.
LEMMA SitesStep ==
  ASSUME IInv, Next
  PROVE  Sites'
<1>a. /\ Persons = 0 .. Last /\ Last \in Nat /\ 0 \in 0 .. Last
      /\ Last' = Last /\ info' = info /\ config' = config /\ Input' = Input
      /\ Accepted(Input) <=> Accepted(json)
      /\ Accepted(json)' = Accepted(json) /\ Documented' = Documented
  BY StepKeepsGame, ReadsPosted, SameGame DEF IInv
<1>b. Posted /\ who \in 0 .. Last /\ errors \in 0 .. MaxErrors
  BY DEF IInv, Control
<1>c. /\ config \in Options
      /\ Root(info) = Resolve(Home, config.basedir) /\ Root(info)' = Root(info)
      /\ \A p \in 0 .. Last : Site(info, p)' = Site(info, p) /\ Folder(info, p)' = Folder(info, p)
  BY <1>a, <1>b, Terrain DEF Root, Site, Folder
<1> USE <1>a, <1>b, <1>c
<1> USE DEF IInv, Histories, Sites
<1>1. CASE BuildReads
  BY <1>1 DEF InBuild, InRun, BuildReads, BuildLeaves, buildFrame, childFrame, madeFrame
<1>2. CASE ReaderAborts
  BY <1>2 DEF InBuild, InRun, ReaderAborts, buildFrame, childFrame, madeFrame
<1>3. CASE MakeLogdir
  BY <1>3, Counted DEF InBuild, InRun, MakeLogdir, BuildLeaves, buildFrame, childFrame
<1>4. CASE PersonFails
  BY <1>4, TurnEnds, Counted DEF InBuild, InRun, PersonFails, buildFrame
<1>5. CASE SkipBuild
  <2>1. MakeFolder
    BY <1>5 DEF SkipBuild
  <2>2. made' = [made EXCEPT ![who] = Folder(info, who)] /\ Basedir = Site(info, who)
    BY <2>1, FolderIsMade, TurnsPlaces
  <2> QED
    BY <1>5, <2>2 DEF SkipBuild, buildFrame
<1>6. CASE StartBuild
  <2>1. MakeFolder
    BY <1>6 DEF StartBuild
  <2>2. made' = [made EXCEPT ![who] = Folder(info, who)] /\ Basedir = Site(info, who)
    BY <2>1, FolderIsMade, TurnsPlaces
  <2> QED
    BY <1>6, <2>2 DEF StartBuild, buildFrame
<1>7. CASE BuildCannotStart
  <2>1. MakeFolder
    BY <1>7 DEF BuildCannotStart
  <2>2. made' = [made EXCEPT ![who] = Folder(info, who)] /\ Basedir = Site(info, who)
    BY <2>1, FolderIsMade, TurnsPlaces
  <2> QED
    BY <1>7, <2>2, Counted DEF BuildCannotStart, buildFrame
<1>8. CASE \E code \in {"exited 0", "exited 1"} : ChildEnds(code)
  BY <1>8 DEF InBuild, InRun, ChildEnds, unchangedByChild, buildFrame
<1>9. CASE ChildBlocks
  BY <1>9 DEF InBuild, InRun, ChildBlocks, unchangedByChild, buildFrame
<1>10. CASE OrphanEnds
  BY <1>10 DEF InBuild, InRun, OrphanEnds, unchangedByChild, buildFrame
<1>11. CASE WaiterReaps
  BY <1>11 DEF InBuild, InRun, WaiterReaps, unchangedByChild, buildFrame
<1>12. CASE BuildSucceeds
  BY <1>12, TurnEnds DEF InBuild, InRun, BuildSucceeds, loopFrame, buildFrame, madeFrame
<1>13. CASE BuildFails
  BY <1>13 DEF InBuild, InRun, BuildFails, loopFrame, buildFrame, madeFrame, childFrame
<1>14. CASE Reports
  BY <1>14, TurnEnds DEF InBuild, InRun, Reports, loopFrame, buildFrame, madeFrame
<1>15. CASE TimesOut
  BY <1>15 DEF InBuild, InRun, TimesOut, loopFrame, buildFrame, madeFrame
<1>16. CASE Joins
  BY <1>16, TurnEnds DEF InBuild, InRun, Joins, loopFrame, buildFrame, madeFrame
<1>17. CASE RunStarts
  BY <1>17 DEF InBuild, InRun, RunStarts, runFrame, childFrame, madeFrame
<1>18. CASE RunReads
  BY <1>18 DEF InBuild, InRun, RunReads, Moves, runFrame, childFrame, madeFrame
<1>19. CASE RunOpens
  BY <1>19, Counted DEF InBuild, InRun, RunOpens, runFrame, childFrame, madeFrame
<1>20. CASE RunChecks
  BY <1>20, Counted DEF InBuild, InRun, RunChecks, Moves, runFrame, childFrame, madeFrame
<1>21. CASE Launches
  BY <1>21 DEF InBuild, InRun, Launches, runFrame, childFrame, madeFrame
<1>22. CASE LaunchThrows
  BY <1>22, Counted DEF InBuild, InRun, LaunchThrows, runFrame, childFrame, madeFrame
<1>23. CASE Unwinds
  BY <1>23 DEF InBuild, InRun, Unwinds, runFrame, childFrame, madeFrame
<1> QED
  BY <1>1, <1>2, <1>3, <1>4, <1>5, <1>6, <1>7, <1>8, <1>9, <1>10, <1>11, <1>12, <1>13, <1>14,
     <1>15, <1>16, <1>17, <1>18, <1>19, <1>20, <1>21, <1>22, <1>23 DEF Next, Build, Run

\* With what is documented for basedir, entering it again leads nowhere else.
LEMMA EnteredTwice ==
  ASSUME Posted, Documented
  PROVE  Resolve(Root(info), config.basedir) = Root(info)
<1>1. CASE config.basedir.abs
  BY <1>1, Terrain DEF Resolve
<1>2. CASE config.basedir = Here
  <2>1. Root(info) \o <<>> = Root(info)
    BY Terrain DEF Locations
  <2> QED
    BY <1>2, <2>1 DEF Resolve, Here, Path
<1> QED
  BY <1>1, <1>2 DEF Documented

\* Wherever the JSON file is, liujdg.run comes to where the build started from.
LEMMA EntersRoot ==
  ASSUME Posted, Documented, NEW at,
         at = IF source.dir = Nowhere THEN Home ELSE source.dir
  PROVE  Resolve(at, config.basedir) = Root(info)
<1>1. Root(info) = Resolve(Home, config.basedir)
  BY Terrain
<1>2. CASE config.basedir.abs
  BY <1>1, <1>2 DEF Resolve
<1>3. CASE config.basedir = Here /\ source.dir \in {Nowhere, Home}
  BY <1>1, <1>3
<1> QED
  BY <1>2, <1>3 DEF Documented

\* liujdg.run goes where liujdg.build has been.
LEMMA WalkStep ==
  ASSUME IInv, Next
  PROVE  Walk'
<1>a. /\ Persons = 0 .. Last /\ Last \in Nat /\ 0 \in 0 .. Last
      /\ Last' = Last /\ info' = info /\ config' = config /\ Input' = Input
      /\ Accepted(Input) <=> Accepted(json)
      /\ Accepted(json)' = Accepted(json) /\ Documented' = Documented
  BY StepKeepsGame, ReadsPosted, SameGame DEF IInv
<1>b. Posted /\ who \in 0 .. Last /\ errors \in 0 .. MaxErrors
  BY DEF IInv, Control
<1>c. /\ config \in Options
      /\ Root(info) = Resolve(Home, config.basedir) /\ Root(info)' = Root(info)
      /\ \A p \in 0 .. Last : Site(info, p)' = Site(info, p) /\ Folder(info, p)' = Folder(info, p)
  BY <1>a, <1>b, Terrain DEF Root, Site, Folder
<1> USE <1>a, <1>b, <1>c
<1> USE DEF IInv, Histories, Launched, Walk
<1>1. CASE BuildReads
  BY <1>1 DEF InBuild, InRun, BuildReads, BuildLeaves, buildFrame, childFrame, madeFrame
<1>2. CASE ReaderAborts
  BY <1>2 DEF InBuild, InRun, ReaderAborts, buildFrame, childFrame, madeFrame
<1>3. CASE MakeLogdir
  BY <1>3, Counted DEF InBuild, InRun, MakeLogdir, BuildLeaves, buildFrame, childFrame
<1>4. CASE PersonFails
  BY <1>4, TurnEnds, Counted DEF InBuild, InRun, PersonFails, buildFrame
<1>5. CASE SkipBuild
  BY <1>5, TurnEnds DEF InBuild, InRun, SkipBuild, MakeFolder, buildFrame
<1>6. CASE StartBuild
  BY <1>6 DEF InBuild, InRun, StartBuild, MakeFolder, buildFrame
<1>7. CASE BuildCannotStart
  BY <1>7, TurnEnds, Counted DEF InBuild, InRun, BuildCannotStart, MakeFolder, buildFrame
<1>8. CASE \E code \in {"exited 0", "exited 1"} : ChildEnds(code)
  BY <1>8 DEF InBuild, InRun, ChildEnds, unchangedByChild, buildFrame
<1>9. CASE ChildBlocks
  BY <1>9 DEF InBuild, InRun, ChildBlocks, unchangedByChild, buildFrame
<1>10. CASE OrphanEnds
  BY <1>10 DEF InBuild, InRun, OrphanEnds, unchangedByChild, buildFrame
<1>11. CASE WaiterReaps
  BY <1>11 DEF InBuild, InRun, WaiterReaps, unchangedByChild, buildFrame
<1>12. CASE BuildSucceeds
  BY <1>12, TurnEnds DEF InBuild, InRun, BuildSucceeds, loopFrame, buildFrame, madeFrame
<1>13. CASE BuildFails
  BY <1>13 DEF InBuild, InRun, BuildFails, loopFrame, buildFrame, madeFrame, childFrame
<1>14. CASE Reports
  BY <1>14, TurnEnds DEF InBuild, InRun, Reports, loopFrame, buildFrame, madeFrame
<1>15. CASE TimesOut
  BY <1>15 DEF InBuild, InRun, TimesOut, loopFrame, buildFrame, madeFrame
<1>16. CASE Joins
  BY <1>16, TurnEnds DEF InBuild, InRun, Joins, loopFrame, buildFrame, madeFrame
<1>17. CASE RunStarts
  <2>1. ASSUME Documented
        PROVE  Resolve(cwd', config.basedir) = Root(info)
    BY <1>17, <2>1, EntersRoot DEF RunStarts
  <2>2. pc' = "starting" /\ up' = up /\ up = {}
    BY <1>17 DEF RunStarts, InRun
  <2> QED
    BY <2>1, <2>2 DEF InRun
<1>18. CASE RunReads
  BY <1>18 DEF InBuild, InRun, RunReads, Moves, runFrame, childFrame, madeFrame
<1>19. CASE RunOpens
  BY <1>19, Counted DEF InBuild, InRun, RunOpens, runFrame, childFrame, madeFrame
<1>20. CASE RunChecks
  <2>1. ASSUME Documented
        PROVE  Resolve(cwd, config.basedir) = Root(info) /\ cwd = Root(info)
    BY <1>20, <2>1, EnteredTwice DEF RunChecks, InRun
  <2>2. ASSUME Documented, pc' \in InRun
        PROVE  cwd' = Root(info)
    BY <1>20, <2>1, <2>2 DEF RunChecks, InRun, Moves
  <2>3. pc' \in {"launching", "over"} /\ UNCHANGED <<up, started>>
    BY <1>20 DEF RunChecks
  <2> QED
    BY <2>2, <2>3
<1>21. CASE Launches
  <2>1. SUFFICES ASSUME Documented
                 PROVE  Walk'
    OBVIOUS
  <2>2. cwd = Root(info) /\ cwd' = cwd
    BY <1>21, <2>1 DEF Launches, InRun
  <2>3. Resolve(cwd, person.basedir) = Site(info, who)
    BY <2>2 DEF Site, person
  <2>4. Site(info, who) \o info.persons[who].folder.names \in Whitelist
    BY <2>3 DEF Whitelist, person
  <2>5. started' = [started EXCEPT ![who] = [at |-> Site(info, who), sees |-> Whitelist]]
    BY <1>21, <2>3 DEF Launches
  <2>6. /\ started'[who].at = Site(info, who)
        /\ Site(info, who) \o info.persons[who].folder.names \in started'[who].sees
    BY <2>4, <2>5
  <2>7. \A p \in up : p # who => started'[p] = started[p]
    BY <2>5
  <2>8. \A p \in up' : /\ started'[p].at = Site(info, p)
                       /\ Site(info, p) \o info.persons[p].folder.names \in started'[p].sees
    BY <1>21, <2>1, <2>6, <2>7 DEF Launches
  <2>9. pc' \in {"launching", "game"} /\ result' = Resolve(Root(info), config.logdir)
    BY <1>21, <2>2 DEF Launches
  <2> QED
    BY <2>2, <2>8, <2>9
<1>22. CASE LaunchThrows
  BY <1>22, Counted DEF InBuild, InRun, LaunchThrows, runFrame, childFrame, madeFrame
<1>23. CASE Unwinds
  BY <1>23 DEF InBuild, InRun, Unwinds, runFrame, childFrame, madeFrame
<1> QED
  BY <1>1, <1>2, <1>3, <1>4, <1>5, <1>6, <1>7, <1>8, <1>9, <1>10, <1>11, <1>12, <1>13, <1>14,
     <1>15, <1>16, <1>17, <1>18, <1>19, <1>20, <1>21, <1>22, <1>23 DEF Next, Build, Run

-----------------------------------------------------------------------------
(* The theorems.                                                           *)

LEMMA InitIInv == Init => IInv
<1> SUFFICES ASSUME Init
             PROVE  IInv
  OBVIOUS
<1>1. Posted
  BY DEF Init, Posted
<1>2. Last \in Nat /\ 0 \in 0 .. Last
  BY <1>1, ReadsPosted
<1>3. Whereabouts
  BY Given DEF Init, Whereabouts, Locations, InBuild, InRun
<1>4. Control
  <2>1. /\ pc = "reading" /\ who = 0 /\ child = "none" /\ reaped = FALSE
        /\ orphan = FALSE /\ rc = 0 /\ errors = 0
    BY DEF Init
  <2>2. errors \in 0 .. MaxErrors /\ rc \in {0, -1}
    BY <2>1, Given
  <2> QED
    BY <1>2, <2>1, <2>2 DEF Control
<1>5. Histories
  BY DEF Init, Histories, Last, Outcomes, Sights
<1>6. Child /\ Turns /\ AllWell
  BY DEF Init, Child, Turns, AllWell, Running
<1>7. Sites
  BY DEF Init, Sites, Last
<1>8. Walk /\ Launched
  BY DEF Init, Walk, Launched, InRun
<1> QED
  BY <1>1, <1>3, <1>4, <1>5, <1>6, <1>7, <1>8 DEF IInv

LEMMA StepIInv == IInv /\ [Next]_vars => IInv'
<1> SUFFICES ASSUME IInv, [Next]_vars
             PROVE  IInv'
  OBVIOUS
<1>1. CASE Next
  <2>1. Posted'
    BY <1>1, StepKeepsGame, SameGame DEF IInv
  <2> QED
    BY <1>1, <2>1, WhereaboutsStep, ControlStep, HistoriesStep, ChildStep, TurnsStep, AllWellStep,
       SitesStep, WalkStep, LaunchedStep DEF IInv
<1>2. CASE UNCHANGED vars
  <2>1. UNCHANGED <<json, source>>
    BY <1>2 DEF vars, buildFrame
  <2>2. Posted' /\ Input' = Input /\ info' = info /\ Last' = Last /\ Documented' = Documented
        /\ config' = config
    BY <2>1, SameGame DEF IInv
  <2>3. UNCHANGED <<json, up, started, result, child, reaped, orphan, dirs, tried, ended, made,
                    built, cwd, pc, who, rc, errors>>
    BY <1>2 DEF vars, buildFrame, childFrame, madeFrame
  <2>4. Whereabouts' /\ Control' /\ Histories'
    BY <2>2, <2>3 DEF IInv, Whereabouts, Control, Histories
  <2>5. Child' /\ Turns' /\ AllWell'
    BY <2>2, <2>3 DEF IInv, Child, Turns, AllWell
  <2>6. Sites' /\ Walk' /\ Launched'
    BY <2>2, <2>3 DEF IInv, Sites, Walk, Launched
  <2> QED
    BY <2>2, <2>4, <2>5, <2>6 DEF IInv
<1> QED
  BY <1>1, <1>2

\* The invariant holds in every state that the two programs reach.
THEOREM AlwaysIInv == Spec => []IInv
BY InitIInv, StepIInv, PTL DEF Spec

\* The programs are always in a directory that exists, with limits that are ints.
LEMMA TypesFollow == IInv => TypeOK
<1> SUFFICES ASSUME IInv
             PROVE  TypeOK
  OBVIOUS
<1>1. config \in Options /\ Last \in Nat
  BY Terrain, ReadsPosted DEF IInv
<1>2. dirs \subseteq Seq(STRING) /\ cwd \in dirs
  BY DEF IInv, Whereabouts, Locations
<1>3. up \subseteq Nat
  BY <1>1 DEF IInv, Histories
<1>6. who \in Nat
  <2>1. who \in 0 .. Last
    BY DEF IInv, Control
  <2> QED
    BY <1>1, <2>1
<1>4. /\ reaped \in BOOLEAN /\ orphan \in BOOLEAN /\ rc \in {0, -1}
      /\ errors \in 0 .. MaxErrors
      /\ child \in Running \cup {"none", "killed", "exited 0", "exited 1"}
      /\ pc \in {"reading", "logging", "person", "waiting", "joining", "reporting", "built",
                 "starting", "opening", "checking", "launching", "unwinding", "game", "over"}
  BY DEF IInv, Control, InBuild, InRun
<1>5. config.timeLimit \in 0 .. IntMax /\ config.buildTimeLimit \in 0 .. IntMax
  BY <1>1 DEF Options
<1> QED
  BY <1>2, <1>3, <1>4, <1>5, <1>6 DEF TypeOK

\* Whatever is posted, both programs are always somewhere, with limits that are ints.
THEOREM TypeCorrect == Spec => []TypeOK
BY AlwaysIInv, TypesFollow, PTL

\* What the daemon parses and writes anew is, to both programs, what was posted.
THEOREM BothReadTheSame == Spec => []ReadsWhatWasPosted
<1>1. IInv => ReadsWhatWasPosted
  BY ReadsPosted DEF IInv, ReadsWhatWasPosted
<1> QED
  BY <1>1, AlwaysIInv, PTL

\* liujdg.build returns 0 only if everything was made and built, and a person whose
\* build fails or hangs takes nobody's turn.
THEOREM ZeroMeansBuilt == Spec => []ReturnCodeTells
<1>1. IInv => ReturnCodeTells
  <2> SUFFICES ASSUME IInv, pc = "built"
               PROVE  /\ rc = 0 => \A p \in Persons :
                           made[p] \in dirs
                           /\ (info.persons[p].build \in {"", "."} \/ ended[p] = "exited 0")
                      /\ tried \in {{}, Persons}
    BY DEF ReturnCodeTells
  <2>1. Persons = 0 .. Last
    BY ReadsPosted DEF IInv
  <2>2. tried = 0 .. Last \/ (tried = {} /\ rc = -1)
    BY DEF IInv, Turns
  <2>3. ASSUME rc = 0, NEW p \in 0 .. Last
        PROVE  made[p] \in dirs
               /\ (info.persons[p].build \in {"", "."} \/ ended[p] = "exited 0")
    <3>1. p \in tried
      BY <2>2, <2>3
    <3> QED
      BY <2>3, <3>1, Zenon DEF IInv, AllWell
  <2> QED
    BY <2>1, <2>2, <2>3
<1> QED
  BY <1>1, AlwaysIInv, PTL

\* Each child of the game runs where it was built and sees the folder made for it.
THEOREM BuildAndRunMeet == Spec => []RunsWhereBuilt
<1>1. IInv => RunsWhereBuilt
  <2> SUFFICES ASSUME IInv, Documented, NEW p \in up
               PROVE  /\ built[p] # Nowhere => started[p].at = built[p]
                      /\ made[p] # Nowhere /\ ~info.persons[p].folder.abs
                           => made[p] \in started[p].sees
    BY DEF RunsWhereBuilt
  <2>1. p \in 0 .. Last
    BY DEF IInv, Histories
  <2>2. /\ started[p].at = Site(info, p)
        /\ Site(info, p) \o info.persons[p].folder.names \in started[p].sees
    BY DEF IInv, Walk
  <2>3. built[p] \in {Nowhere, Site(info, p)} /\ made[p] \in {Nowhere, Folder(info, p)}
    BY <2>1 DEF IInv, Sites
  <2> QED
    BY <2>2, <2>3 DEF Folder, Resolve
<1> QED
  BY <1>1, AlwaysIInv, PTL

\* The result of a game is where /new told the client that it would be.
THEOREM ResultWhereTold == Spec => []ResultIsWhereTold
<1>1. IInv => ResultIsWhereTold
  BY DEF IInv, Walk, ResultIsWhereTold, Root, config
<1> QED
  BY <1>1, AlwaysIInv, PTL

\* No build outlives its turn, and a launch that fails takes back those before it.
THEOREM NoneLeftBehind == Spec => []NobodyLeftBehind
<1>1. IInv => NobodyLeftBehind
  <2> SUFFICES ASSUME IInv
               PROVE  NobodyLeftBehind
    OBVIOUS
  <2>1. Persons = 0 .. Last
    BY ReadsPosted DEF IInv
  <2>2. pc \notin {"waiting", "joining"} => child \notin Running
    BY DEF IInv, Child, Running
  <2>3. pc \in {"game", "over"} => up = IF pc = "game" THEN Persons ELSE {}
    BY <2>1 DEF IInv, Launched
  <2> QED
    BY <2>2, <2>3 DEF NobodyLeftBehind
<1> QED
  BY <1>1, AlwaysIInv, PTL
================================================================================
