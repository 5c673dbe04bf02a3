-------------------------------- MODULE Launch --------------------------------
(***************************************************************************)
(* From a configuration to a game that has begun: liujdg.build, then       *)
(* liujdg.run up to its first child at work, over one file system.  Both   *)
(* read the same JSON, from a shell (a file, or stdin) or from the daemon, *)
(* which hands on what it parsed.  Each process has one current directory, *)
(* which these programs change again and again, and relative paths mean    *)
(* what they mean at that moment.                                          *)
(***************************************************************************)
EXTENDS Integers, Sequences, FiniteSets

CONSTANTS Jsons,      \* the documents that may be posted (see Documents)
          Home,       \* the directory the caller is in
          JsonDirs,   \* the directories a JSON file may be in
          Files,      \* the directories that exist at first
          IntMax,     \* INT_MAX
          MaxErrors   \* bound on what the system refuses: a mkdir, an open, an exec

VARIABLES
  json,     \* the document
  source,   \* who calls, and the directory of the file (Nowhere for stdin)
  dirs,     \* the directories that exist
  cwd,      \* the current directory of the program that runs
  pc,       \* where that program is
  who,      \* the person its loop is at
  child,    \* the build that is under way
  reaped,   \* the thread of wait_or_kill has seen it end
  orphan,   \* a descendant of the build holds its stdout or stderr
  rc,       \* what liujdg.build returns, or has returned
  up,       \* the persons whose program runs
  errors,   \* history: how often the system refused something
  tried,    \* history: the persons the loop of liujdg.build has come to
  ended,    \* history: how the build of each person ended by itself
  made,     \* history: the folder made for each person
  built,    \* history: where each build ran
  started,  \* history: where each program of the game runs, and what it may see
  result    \* history: the directory logdir names as the children start

buildFrame == <<json, source, up, started, result>>
childFrame == <<child, reaped, orphan>>
madeFrame  == <<dirs, tried, ended, made, built>>
vars == <<buildFrame, childFrame, madeFrame, cwd, pc, who, rc, errors>>

-----------------------------------------------------------------------------
(* Paths.  A location is the sequence of names from the root; a path is    *)
(* absolute or relative.                                                   *)

Path(abs, names) == [abs |-> abs, names |-> names]
Here    == Path(FALSE, <<>>)         \* "./"
NoPath  == Path(FALSE, <<"">>)       \* the empty string, which names nothing
Nowhere == <<"">>

Resolve(at, path) == IF path.abs THEN path.names ELSE at \o path.names
Parents(at)       == {SubSeq(at, 1, k) : k \in 0 .. Len(at)}

\* What ends in a slash: the readers of the JSON turn "" into "./".
Directory(path) == IF path = NoPath THEN Here ELSE path

-----------------------------------------------------------------------------
(* Reading and writing the JSON.  A document has a kind, the names of the  *)
(* members that are there with the right type, and their values.           *)

Paths == [abs : BOOLEAN, names : Seq(STRING)]

Humans ==
  [fields : SUBSET STRING, id : STRING, build : STRING, folder : Paths, basedir : Paths]

Documents ==
  [kind : {"object", "other", "broken"}, fields : SUBSET STRING,
   judger : Humans, players : Seq(Humans),
   config : [fields : SUBSET STRING, logdir : Paths, basedir : Paths,
             timeLimit : Int, buildTimeLimit : Int]]

\* A member that is not in `fields` has a value as well, which nothing reads.  The
\* default limits are ints; the caller and the JSON file are in directories.
ASSUME Given ==
  /\ Jsons \subseteq Documents
  /\ Files \subseteq Seq(STRING)
  /\ Home \in Files
  /\ JsonDirs \subseteq Files
  /\ IntMax \in Nat /\ IntMax >= 10
  /\ MaxErrors \in Nat

PersonFields == {"name", "id", "build", "run", "folder", "basedir"}
GameFields   == {"judger", "players", "config"}

\* Mutation: any unsigned number is taken, and wraps to an int.
LimitUnchecked(v, field, value, default) ==
  IF field \in v.fields /\ value >= 0
  THEN IF value > IntMax THEN value - 2 * (IntMax + 1) ELSE value
  ELSE default

Limit(v, field, value, default) ==
  IF field \in v.fields /\ value \in 0 .. IntMax THEN value ELSE default

Ljdgconfig(v) ==
  [logdir  |-> IF "logdir" \in v.fields THEN v.logdir ELSE NoPath,
   basedir |-> IF "basedir" \in v.fields THEN Directory(v.basedir) ELSE Here,
   timeLimit      |-> Limit(v, "timeLimit", v.timeLimit, 3),
   buildTimeLimit |-> Limit(v, "buildTimeLimit", v.buildTimeLimit, 10)]

LPerson(v) ==
  [id |-> v.id, build |-> v.build, folder |-> Directory(v.folder), basedir |-> Directory(v.basedir)]

Accepted(doc) ==
  /\ doc.kind = "object"
  /\ GameFields \subseteq doc.fields
  /\ \A v \in {doc.judger} \cup {doc.players[k] : k \in DOMAIN doc.players} :
       PersonFields \subseteq v.fields

\* fromString of a document it accepts.
LGameInfo(doc) ==
  [persons |-> [k \in 0 .. Len(doc.players) |-> LPerson(IF k = 0 THEN doc.judger ELSE doc.players[k])],
   config  |-> Ljdgconfig(doc.config)]

\* Mutation: the loop over the players begins with the judger.
ToStringFromJudger(info) ==
  LET Fields(v, names) == [f \in {"fields"} \cup DOMAIN v |-> IF f = "fields" THEN names ELSE v[f]]
  IN  [kind |-> "object", fields |-> GameFields,
       judger  |-> Fields(info.persons[0], PersonFields),
       players |-> [k \in 1 .. Cardinality(DOMAIN info.persons) |-> Fields(info.persons[k - 1], PersonFields)],
       config  |-> Fields(info.config, {"logdir", "basedir", "timeLimit", "buildTimeLimit"})]

ToString(info) ==
  LET Fields(v, names) == [f \in {"fields"} \cup DOMAIN v |-> IF f = "fields" THEN names ELSE v[f]]
  IN  [kind |-> "object", fields |-> GameFields,
       judger  |-> Fields(info.persons[0], PersonFields),
       players |-> [k \in 1 .. Cardinality(DOMAIN info.persons) - 1 |-> Fields(info.persons[k], PersonFields)],
       config  |-> Fields(info.config, {"logdir", "basedir", "timeLimit", "buildTimeLimit"})]

\* What build and run read: the daemon sends what it has parsed.
Input == IF source.from = "daemon" THEN ToString(LGameInfo(json)) ELSE json

info    == LGameInfo(Input)
config  == info.config
Persons == DOMAIN info.persons
person  == info.persons[who]

-----------------------------------------------------------------------------
Running == {"running", "blocked"}

TypeOK ==
  /\ dirs \subseteq Seq(STRING)
  /\ cwd \in dirs
  /\ pc \in {"reading", "logging", "person", "waiting", "joining", "reporting", "built",
             "starting", "opening", "checking", "launching", "unwinding", "game", "over"}
  /\ who \in Nat
  /\ child \in Running \cup {"none", "killed", "exited 0", "exited 1"}
  /\ reaped \in BOOLEAN
  /\ orphan \in BOOLEAN
  /\ rc \in {0, -1}
  /\ up \subseteq Nat
  /\ errors \in 0 .. MaxErrors
  /\ Accepted(json) => /\ config.timeLimit \in 0 .. IntMax
                       /\ config.buildTimeLimit \in 0 .. IntMax

Init ==
  /\ json \in Jsons
  /\ source \in [from : {"shell"}, dir : JsonDirs \cup {Nowhere}]
               \cup [from : {"daemon"}, dir : {Nowhere}]
  /\ source.from = "daemon" => Accepted(json)
  /\ dirs = Files
  /\ cwd = Home
  /\ pc = "reading"
  /\ who = 0
  /\ child = "none"
  /\ reaped = FALSE
  /\ orphan = FALSE
  /\ rc = 0
  /\ up = {}
  /\ errors = 0
  /\ tried = {}
  /\ ended = [p \in 0 .. Len(json.players) |-> "none"]
  /\ made = [p \in 0 .. Len(json.players) |-> Nowhere]
  /\ built = [p \in 0 .. Len(json.players) |-> Nowhere]
  /\ started = [p \in 0 .. Len(json.players) |-> [at |-> Nowhere, sees |-> {}]]
  /\ result = Nowhere

Refused ==
  /\ errors < MaxErrors
  /\ errors' = errors + 1

-----------------------------------------------------------------------------
(* liujdg.build.                                                           *)

BuildLeaves(code) ==
  /\ rc' = code
  /\ pc' = "built"

BuildReads ==
  /\ pc = "reading"
  /\ IF Accepted(Input) /\ Resolve(cwd, config.basedir) \in dirs
     THEN /\ cwd' = Resolve(cwd, config.basedir)
          /\ pc' = "logging"
          /\ UNCHANGED rc
     ELSE BuildLeaves(-1) /\ UNCHANGED cwd
  /\ UNCHANGED <<buildFrame, childFrame, madeFrame, who, errors>>

\* HasMember of a document that is not an object asserts; where assertions are
\* off it looks for members that are not there, and finds none at best.
ReaderAborts ==
  /\ pc \in {"reading", "starting"}
  /\ Input.kind = "other"
  /\ pc' = "over"
  /\ UNCHANGED <<buildFrame, childFrame, madeFrame, cwd, who, rc, errors>>

\* create_directories(logdir), which throws for "".
MakeLogdir ==
  /\ pc = "logging"
  /\ \/ /\ config.logdir # NoPath
        /\ dirs' = dirs \cup Parents(Resolve(cwd, config.logdir))
        /\ pc' = "person"
        /\ UNCHANGED <<rc, errors>>
     \/ /\ config.logdir = NoPath
        /\ BuildLeaves(-1)
        /\ UNCHANGED <<dirs, errors>>
     \/ /\ Refused
        /\ BuildLeaves(-1)
        /\ UNCHANGED dirs
  /\ UNCHANGED <<buildFrame, childFrame, cwd, who, tried, ended, made, built>>

\* The end of the body of the loop.
NextPerson ==
  /\ IF who + 1 \in Persons
     THEN who' = who + 1 /\ pc' = "person"
     ELSE pc' = "built" /\ UNCHANGED who
  /\ child' = "none"
  /\ reaped' = FALSE
  /\ orphan' = FALSE

\* Where the body of the loop goes for a person: back to `path`, then on.
\* Mutation: from where the last person left it.
BasedirFromHere == Resolve(cwd, person.basedir)

Basedir == Resolve(Resolve(Home, config.basedir), person.basedir)

\* The directory is not there, or the folder cannot be made.
PersonFails ==
  /\ pc = "person"
  /\ tried' = tried \cup {who}
  /\ \/ /\ Basedir \notin dirs
        /\ cwd' = Resolve(Home, config.basedir)
        /\ UNCHANGED errors
     \/ /\ Basedir \in dirs
        /\ Refused
        /\ cwd' = Basedir
  /\ rc' = -1
  /\ NextPerson
  /\ UNCHANGED <<buildFrame, dirs, ended, made, built>>

MakeFolder ==
  /\ pc = "person"
  /\ Basedir \in dirs
  /\ cwd' = Basedir
  /\ tried' = tried \cup {who}
  /\ made' = [made EXCEPT ![who] = Resolve(Basedir, person.folder)]
  /\ dirs' = dirs \cup Parents(Resolve(Basedir, person.folder))

SkipBuild ==
  /\ MakeFolder
  /\ person.build \in {"", "."}
  /\ NextPerson
  /\ UNCHANGED <<buildFrame, rc, errors, ended, built>>

StartBuild ==
  /\ MakeFolder
  /\ person.build \notin {"", "."}
  /\ child' = "running"
  /\ pc' = "waiting"
  /\ built' = [built EXCEPT ![who] = Basedir]
  /\ UNCHANGED <<buildFrame, who, reaped, orphan, rc, errors, ended>>

BuildCannotStart ==
  /\ MakeFolder
  /\ person.build \notin {"", "."}
  /\ Refused
  /\ rc' = -1
  /\ NextPerson
  /\ UNCHANGED <<buildFrame, ended, built>>

unchangedByChild == <<buildFrame, dirs, tried, made, built, cwd, pc, who, rc, errors>>

\* The build ends; something it started may go on and hold its pipes.
ChildEnds(code) ==
  /\ child = "running"
  /\ child' = code
  /\ ended' = [ended EXCEPT ![who] = code]
  /\ orphan' \in BOOLEAN
  /\ UNCHANGED <<unchangedByChild, reaped>>

\* It has printed more than its pipe holds: nobody reads before it has ended.
ChildBlocks ==
  /\ child = "running"
  /\ child' = "blocked"
  /\ UNCHANGED <<unchangedByChild, ended, reaped, orphan>>

OrphanEnds ==
  /\ orphan
  /\ orphan' = FALSE
  /\ UNCHANGED <<unchangedByChild, ended, child, reaped>>

\* The thread that wait_or_kill starts.
WaiterReaps ==
  /\ child \notin Running \cup {"none"}
  /\ ~reaped
  /\ reaped' = TRUE
  /\ UNCHANGED <<unchangedByChild, ended, child, orphan>>

loopFrame == <<buildFrame, madeFrame, cwd, errors>>

\* Mutation: the return code is that of the last build.
BuildSucceedsLast ==
  /\ pc = "waiting"
  /\ reaped /\ child = "exited 0"
  /\ rc' = 0
  /\ NextPerson
  /\ UNCHANGED loopFrame

BuildSucceeds ==
  /\ pc = "waiting"
  /\ reaped /\ child = "exited 0"
  /\ NextPerson
  /\ UNCHANGED <<loopFrame, rc>>

BuildFails ==
  /\ pc = "waiting"
  /\ reaped /\ child = "exited 1"
  /\ pc' = "reporting"
  /\ UNCHANGED <<loopFrame, childFrame, who, rc>>

\* LreadFile reads stdout and stderr to their end.
Reports ==
  /\ pc = "reporting"
  /\ ~orphan
  /\ rc' = -1
  /\ NextPerson
  /\ UNCHANGED loopFrame

\* Mutation: a build that takes too long is not killed.
TimesOutWithoutKill ==
  /\ pc = "waiting"
  /\ ~reaped
  /\ pc' = "joining"
  /\ UNCHANGED <<loopFrame, childFrame, who, rc>>

\* The limit is over.  The build may have ended just now: then it is late as well.
TimesOut ==
  /\ pc = "waiting"
  /\ ~reaped
  /\ child' = IF child \in Running THEN "killed" ELSE child
  /\ pc' = "joining"
  /\ UNCHANGED <<loopFrame, reaped, orphan, who, rc>>

\* The future of std::async is destroyed: wait_or_kill returns false.
Joins ==
  /\ pc = "joining"
  /\ reaped
  /\ rc' = -1
  /\ NextPerson
  /\ UNCHANGED loopFrame

Build == BuildReads \/ MakeLogdir \/ PersonFails \/ SkipBuild \/ StartBuild \/ BuildCannotStart
         \/ BuildSucceeds \/ BuildFails \/ Reports \/ TimesOut \/ Joins

-----------------------------------------------------------------------------
(* liujdg.run, up to the loop of the game.                                 *)

runFrame == <<json, source, childFrame, madeFrame, rc>>

\* A shell runs what it likes; the daemon, what was built.
RunStarts ==
  /\ pc = "built"
  /\ source.from = "daemon" => rc = 0
  /\ cwd' = IF source.dir = Nowhere THEN Home ELSE source.dir
  /\ who' = 0
  /\ pc' = "starting"
  /\ UNCHANGED <<runFrame, up, started, result, errors>>

Moves(to) ==
  /\ to \in dirs
  /\ cwd' = to

RunReads ==
  /\ pc = "starting"
  /\ IF Accepted(Input) /\ Resolve(cwd, config.basedir) \in dirs
     THEN Moves(Resolve(cwd, config.basedir)) /\ pc' = "opening"
     ELSE UNCHANGED cwd /\ pc' = "over"
  /\ UNCHANGED <<runFrame, who, up, started, result, errors>>

\* LGame::fromString opens a file per person in logdir.
RunOpens ==
  /\ pc = "opening"
  /\ \/ /\ pc' = IF config.logdir = NoPath \/ Resolve(cwd, config.logdir) \in dirs
                 THEN "checking" ELSE "over"
        /\ UNCHANGED errors
     \/ Refused /\ pc' = "over"
  /\ UNCHANGED <<runFrame, cwd, who, up, started, result>>

\* init: basedir ends in a slash and is never ".", so it is entered once more.
RunChecks ==
  /\ pc = "checking"
  /\ LET at == Resolve(cwd, config.basedir)
     IN  \/ /\ Moves(at)
            /\ config.logdir # NoPath /\ Resolve(at, config.logdir) \in dirs
            /\ pc' = "launching"
            /\ UNCHANGED errors
         \/ /\ \/ at \notin dirs \/ config.logdir = NoPath
               \/ Resolve(at, config.logdir) \notin dirs
            /\ cwd' = IF at \in dirs THEN at ELSE cwd
            /\ pc' = "over"
            /\ UNCHANGED errors
         \/ /\ Moves(at)
            /\ Refused
            /\ pc' = "over"
  /\ UNCHANGED <<runFrame, who, up, started, result>>

\* create_sandboxed_container: the child may see its directory and its folder,
\* which Boost joins to the directory even if it is absolute.
Whitelist ==
  LET at == Resolve(cwd, person.basedir) IN {at, at \o person.folder.names}

\* Mutation: LProcess does not return to the directory it came from.
LaunchesAndStays ==
  /\ pc = "launching"
  /\ Moves(Resolve(cwd, person.basedir))
  /\ started' = [started EXCEPT ![who] = [at |-> cwd', sees |-> Whitelist]]
  /\ up' = up \cup {who}
  /\ IF who + 1 \in Persons
     THEN who' = who + 1 /\ UNCHANGED pc
     ELSE pc' = "game" /\ UNCHANGED who
  /\ result' = Resolve(cwd', config.logdir)
  /\ UNCHANGED <<runFrame, errors>>

Launches ==
  /\ pc = "launching"
  /\ Resolve(cwd, person.basedir) \in dirs
  /\ started' = [started EXCEPT ![who] = [at |-> Resolve(cwd, person.basedir), sees |-> Whitelist]]
  /\ up' = up \cup {who}
  /\ IF who + 1 \in Persons
     THEN who' = who + 1 /\ UNCHANGED pc
     ELSE pc' = "game" /\ UNCHANGED who
  /\ result' = Resolve(cwd, config.logdir)
  /\ UNCHANGED <<runFrame, cwd, errors>>

LaunchThrows ==
  /\ pc = "launching"
  /\ \/ Resolve(cwd, person.basedir) \notin dirs /\ UNCHANGED errors
     \/ Refused
  /\ pc' = "unwinding"
  /\ UNCHANGED <<runFrame, cwd, who, up, started, result>>

\* Mutation: LExit is quick_exit, and nothing is destroyed.
QuickExit ==
  /\ pc = "unwinding"
  /\ pc' = "over"
  /\ UNCHANGED <<runFrame, cwd, who, up, started, result, errors>>

\* main returns 1: the game and its containers are destroyed, their children killed.
Unwinds ==
  /\ pc = "unwinding"
  /\ up' = {}
  /\ pc' = "over"
  /\ UNCHANGED <<runFrame, cwd, who, started, result, errors>>

Run == RunReads \/ RunOpens \/ RunChecks \/ Launches \/ LaunchThrows \/ Unwinds

-----------------------------------------------------------------------------
Next ==
  \/ Build \/ ReaderAborts
  \/ (\E code \in {"exited 0", "exited 1"} : ChildEnds(code)) \/ ChildBlocks \/ OrphanEnds
  \/ WaiterReaps
  \/ RunStarts \/ Run

Spec == Init /\ [][Next]_vars

\* Both programs and the waiting thread go on; the child owes nothing, for the
\* wait for it has a limit.
FairSpec == Spec /\ WF_vars(Build) /\ WF_vars(WaiterReaps) /\ WF_vars(Run)

-----------------------------------------------------------------------------
(* Properties.                                                             *)

\* liujdg.build returns 0 only if every folder was made and every build command
\* ended with 0; and a build that fails or is late never keeps those behind it
\* from their turn.
ReturnCodeTells ==
  pc = "built" =>
    /\ rc = 0 => \A p \in Persons :
         made[p] \in dirs /\ (info.persons[p].build \in {"", "."} \/ ended[p] = "exited 0")
    /\ tried \in {{}, Persons}

\* What doc/run/README.md recommends: a logdir, and a basedir that is absolute or
\* the directory of the JSON file, which is also the caller's.
Documented ==
  /\ Accepted(json)
  /\ config.logdir # NoPath
  /\ config.basedir.abs \/ (config.basedir = Here /\ source.dir \in {Nowhere, Home})

\* Both programs walk the directories in their own way, and meet: each child of the
\* game runs where it was built, and its sandbox shows it the folder made for it.
RunsWhereBuilt ==
  Documented => \A p \in up :
    /\ built[p] # Nowhere => started[p].at = built[p]
    /\ made[p] # Nowhere /\ ~info.persons[p].folder.abs => made[p] \in started[p].sees

\* The build and the run read what the client posted, though the daemon parses it
\* and writes it anew.
ReadsWhatWasPosted == Accepted(json) => Accepted(Input) /\ info = LGameInfo(json)

\* /new stores basedir / logdir in the row that /get reads: the result of the game
\* will be there, after liujdg.run has entered basedir twice.
ResultIsWhereTold ==
  source.from = "daemon" /\ Documented /\ pc = "game" =>
    result = Resolve(Resolve(Home, config.basedir), config.logdir)

\* No build outlives its turn, and a launch that fails takes back those before it.
NobodyLeftBehind ==
  /\ pc \notin {"waiting", "joining"} => child \notin Running
  /\ pc \in {"game", "over"} => up = IF pc = "game" THEN Persons ELSE {}

\* liujdg.build ends whatever the builds do, within the limit: only something that
\* a failed build left behind, holding its output, can keep it.
BuildEnds == pc = "reading" ~> pc \in {"built", "over"} \/ (pc = "reporting" /\ orphan)

\* What liujdg.build has built, liujdg.run can launch, if nothing goes wrong.
BuiltGameLaunches ==
  pc = "starting" /\ rc = 0 /\ Documented ~> pc = "game" \/ errors > 0
=============================================================================
