# A verification project for liujdg

liujdg ("刘稼级") judges games between programs.  A *judger* program and several
*player* programs are started as children; the main program passes lines of text
between them and writes the result.  A daemon takes games over HTTP, builds the
programs and runs the games one after the other.

The modules here model the parts that are hard to test: reads with a time limit
over blocking pipes, the routing of messages under shuffled ids, the end of a
game, the two threads of the daemon, the way from a configuration to children that
run in the right place, and the matches of the games shipped as examples.  TLC
checks them on small instances; TLAPS proves their safety properties for every value
of the constants.

## 1. The system

| Part | State it keeps | Operations | Talks to |
|---|---|---|---|
| `LProcess` | a boost child, three pipe streams, stdout/stderr tied to stdin | start, kill, isRunning, closeInPipe | the operating system |
| `LProcess_container` | `process`, `mutex`, `eventList` (reads left over by calls that timed out) | `wait_for_getline`, `hasNewMessage`, `getStdin`, `writeTo`, `kill`, `wait_or_kill`, moves, destructor | one thread of `std::async` per read; `LProcess` |
| `LGame` | `processes`, `peopleIndex`, `indexForJudger`, `gameResult`, `isFinished` | `fromString`, `init`, `run`, `nextStep`, `hasDone`, `writeResultToFile`, `wait`, `waitAndKill` | one container per child |
| `liujdg.run` | an `LGame`, the log of errors | `main`: configure, launch, loop, close, exit code | `LGame` |
| `liujdg.build` | the return code | `main`: per person change directory, build with a time limit | `LProcess_container::wait_or_kill` |
| `LGameInfo`, `LPerson`, `Ljdgconfig` | the configuration | `fromString`, `toString` | run, build, daemon |
| `LGameResult`, `LPlayerResult` | scores, winners, comments | `writeToFile` | `LGame` |
| daemon: executor | `type`, `pro`, the front of `processes` | `exe_thread_f` every two seconds | `mutex_pro`, the queue, the table `tasks`, the children `liujdg.build` and `liujdg.run` |
| daemon: HTTP | nothing of its own | `/new`, `/get`, fixed texts | `mutex_pro`, the queue, the table |
| `Lfunc`, `LProcess_sandboxed_c` | none | files, directories, `LgetCommand`, the sandboxed command line | |
| `examples/`: judgers and players | a board each, whose turn it is | read tokens, move or judge, print | each other, through `liujdg.run` |

What makes each of them correct, and what is hard about it:

* **container.** A read cannot be cancelled: a call that times out leaves a thread
  blocked in the pipe.  The class is right if the calls still look like a FIFO
  with timed reads, whatever times out when, and if the destructor neither frees
  what a reader uses nor waits for ever.
* **game.** Players are known to the judger by shuffled ids, and each command
  translates them at a place of its own.  The right player must get each message,
  be asked, blamed and scored.  Children may be slow, silent, deaf or dead at any
  step; the game must end, and its exit code and result must agree with what
  happened.
* **daemon.** Two threads share the queue.  The table, written without a lock and
  allowed to fail, is all a client sees and all that outlives a crash.  No task
  may be mixed up with another, reported ahead of what happened, or dropped
  without a trace.

* **from a configuration to a game.**  `liujdg.build` and `liujdg.run` each change
  their current directory again and again, in ways of their own, and relative paths
  mean what they mean at that moment.  A build may fail, hang, print too much or
  leave something behind; a launch may throw in the middle.  The return code must
  tell, nobody may be left running, and what was built must be what runs.
* **examples.**  Judger and players keep boards of their own, which agree only if
  every message arrives and each side notes its own moves.  The judger faces players
  that spin, exit or answer nonsense, and must blame the right one.  It reads tokens
  where `liujdg.run` hands over lines, so that it cannot tell half an answer, or several
  answers, from one.

## 2. Modules

| Module | What it is | Code |
|---|---|---|
| `LineChannel` | abstract: a FIFO of lines with a timed read and a timed peek | the promise of `LProcess_container` |
| `LProcess_container` | caller, reader threads and child; refines `LineChannel` | `LProcess_container.cxx` |
| `LProcess_container_MC` | texts for TLC | |
| `LProcess_container_proofs` | TLAPS proofs: the invariants, and that it implements `LineChannel` | |
| `LGame` | main thread, judger, players, from `LGame::run` to the return of `main` | `LGame.cxx`, `liujdg.run.cxx` |
| `LGame_MC` | lines for TLC | |
| `LGame_proofs` | TLAPS proofs: types, answers, result, exit code | |
| `LGame_delivers` | TLAPS proof that `#send` delivers | |
| `TaskLifecycle` | abstract: the life of a task and the status shown | the promise of the daemon |
| `Executor` | HTTP thread, executor thread, child, database, death and restart; refines `TaskLifecycle` | `executor.cxx`, `Lnew.cxx`, `Lget.cxx`, `utils.cxx` |
| `Executor_MC` | tasks for TLC | |
| `Executor_proofs` | TLAPS proofs: the invariants, what a client sees, `TaskLifecycle` | |
| `Launch` | `liujdg.build`, then `liujdg.run` up to its children, over one file system | `Ljdgconfig.cxx`, `LPerson.cxx`, `LGameInfo.cxx`, `liujdg.build.cxx`, `liujdg.run.cxx`, `LGame.cxx` (up to the launch), `wait_or_kill`, `LProcess_sandboxed_c.cxx` |
| `Launch_MC` | documents for TLC | |
| `Launch_proofs` | TLAPS proofs | |
| `Match` | two players under a judger, as the example programs see `liujdg.run` | the relay of `LGame.cxx` |
| `TicTacToe`, `TicTacToe_MC` | judger and players, on top of `Match` | `examples/ticTacToe`, `examples/bad_runtime` |
| `Gomoku`, `Gomoku_MC` | judger and players, on top of `Match` | `examples/gomoku` |
| `Match_proofs` | lemmas about streams and the lines in them, for the two below | |
| `TicTacToe_proofs` | TLAPS proofs: types, verdicts, lines, boards of the players | |
| `Gomoku_proofs` | TLAPS proofs: rows, types, verdicts, boards of the players | |

`Launch` ends where `LGame` begins: the children run and have been written nothing.
`Match` is the relay of `LGame` reduced to what a judger and two players can tell
apart: no shuffle (`LGame` shows that ids are translated rightly), no full pipes.

### How state and actions correspond to the code

**`LProcess_container`.**  `fut[f]` is a future in `eventList` or in a local
variable, with the thread behind it: launched (waits for `mutex`), reading,
ready, over (deleted).  `StartWait` is the first half of a call up to `wait_for`;
the second half is one of `GetlineReturnsLine`, `GetlineTimesOut`,
`HasNewMessageReturns`.  A reader takes a line in one step: what it has read of a
line so far is private to it.  The pipe is cut into blocks as the reader sees
them: a text and its newline, or `Full`, the LENGTHLIMIT characters after which
the reader stops in the middle of a line (`TextOf` is what the lambda makes of
it).  The loop of the destructor is one action per deleted future.

**`LGame`.**  The container appears as what `LineChannel` promises: a read takes
the next line, or the empty line at end of file, or gives up and takes nothing.
`pc` says which line of `nextStep` main waits for; every command is the action
that reads its first line and the actions that read the lines after it.  A line is
its command word, the numbers after it and what stops the stream there, because
`ss >> id` leaves 0 after a word, the largest int after a number too large, and
the old value of `id` (at first: anything, `Garbage`) at the end of the line.
What a command writes goes into `todo`, one entry per `getStdin() <<`; each is
written in two steps, `PickStream` (the check in `getStdin`) and `WriteLine` or
`WriteBreaks`.  `SayKill`, `LateReaderFlushes` and `KillAll` are `waitAndKill`:
"#kill" goes into the buffer of the stream (`inbuf`) and reaches the pipe only
when a read left over from a time-out flushes it through the tie of the streams.
The histories `told`, `owed`, `given` and `verdict` record the id each child was
told and what the judger asked for in terms of those ids, so that the properties
do not use the index map they are about.

**`Executor`.**  One action per statement between which the database, the other
thread or a crash can come: writing the status, launching, reading the output,
popping.  `exe` and `http` say where the threads are; both hold `mutex_pro` from
their lock to the end of the block.  A task is its id.  `exits` records how the
children of a task ended.  `Die` is a launch that throws, a signal, or the end of
`main`; what is in memory is gone, `status` stays.

**`Launch`.**  A location is the sequence of names from the root, a path is absolute
or relative, and `Resolve` is `std::filesystem`'s `/`; `cwd` is the current directory
of the program that runs.  A document says which members are there with the right
type (`fields`), and their values; `Limit`, `Ljdgconfig`, `LPerson`, `Accepted` and
`ToString` are the readers and the writer.  `Refused` is a `mkdir`, `open` or `exec`
that the system refuses.  One action per exit of the body of the loop in
`liujdg.build`; all but one end in `NextPerson`.  `wait_or_kill` is `BuildSucceeds` or
`BuildFails` if its thread (`WaiterReaps`) was in time, else `TimesOut` and `Joins`.
The histories `made`, `built`, `started` and `result` record locations.

**`Match`, `TicTacToe`, `Gomoku`.**  A step of a judger or a player is what it does
between two reads of its stdin.  `LGame.cxx:181` hands the judger a player's whole line,
behind the player's id, and the judger's `cin >> id >> x >> y` takes the next three
tokens, wherever lines end.  So `jin` is a sequence of numbers and of the `Word` that is
none: `JudgerTakes` takes three numbers and leaves the rest of the line for the next
read, `JudgerLosesInput` is a word among the next three, and with less than three
numbers the judger waits.  The id is read and not looked at.

`kind[p]` says which program plays: `"shipped"`, `"bad"` (`bad_runtime/p1`), or one of
two that are nobody's.  A `"stranger"` prints two tokens or one (`OneAnswer`): a cell,
occupied or not, a pair outside the board, a word somewhere, or half an answer.  A
`"wild"` player prints the lines of `WildLines`, which may be several answers, under any
ids, or one and a half.  Both may also be silent, spin or exit, and print one line, or
none, for each message.  A player that is not going to answer is timed out
(`PlayerFails`); one that is, is taken to be in time.  `At` is the cell that
`board[x][y]` is in ticTacToe, whose judger does not check x and y: (0, 4) is (1, 1).  A
cell outside the array counts as not free.
`ticTacToe/judger` and `bad_runtime/judger` are the same file, and so are `p1`, `p2`
of `ticTacToe` and `bad_runtime/p2`: the map divides the definitions among the copies.
Where `getAutoMove` or `getPosition` draws at random, any free cell may come out.

## 3. Runs

| Run | Bounds | Shows |
|---|---|---|
| `container_safety` | 3 texts, 4 reads, 3 blocks, pipe of 2, descendants | the FIFO promise (`InOrder`, `ImplementsChannel`), one read at a time, nothing freed in use; the destructor returns unless a descendant holds the pipe |
| `container_overlong` | same | *violated*: an overlong line is handed out in pieces |
| `game_routing` | 3 players, all permutations, 3 judger lines | messages, answers, scores and winners reach and name the right player |
| `game_control` | 1 player, 13 judger lines of which 3 are printed, 1 child may end | every command, malformed list and uninitialised id: the exit code tells what happened; writes end, a silent judger ends the game, closing ends |
| `game_word_list` | 2 players | *violated*: "#send 1 x" goes to everybody |
| `game_sigpipe` | 1 player, 1 child may end | *violated*: SIGPIPE leaves children behind |
| `game_no_kill` | 1 player | *violated*: "#kill" is never flushed |
| `executor_safety` | 2 tasks, 1 death, 1 database failure, children that block or hang | no mix-up, no status ahead or back, nothing dropped silently; refines `TaskLifecycle`; every `/new` is answered, and every task ends if there is no death, no failure, and no child that blocks or hangs |
| `executor_blocked` | same, no deaths or failures | *violated*: a talkative child stops the queue |
| `launch` | 13 documents, 3 callers, 2 refusals | the return code of a build tells; children run where they were built; the daemon hands on what it was posted, and the result is where `/new` said; nobody is left behind; builds and launches end |
| `tictactoe` | the real board; 8 pairings; numbers from -1 to 2, 4 wild lines | the verdict is right by the rules, lines are seen, the match ends; if each line is one answer the right player is blamed, and a shipped player that has been told the last move has the judger's board |
| `gomoku` | 3 by 3, 3 in a row; 3 pairings; numbers from 0 to 3, 4 wild lines | the same, with a judger that goes on when it has lost its input |

Why the bounds are enough.  *Container*: the code treats `eventList` as empty or
not, so two reads show every hand-over from one call to the next; four allow a
time-out before and after each.  Two distinguishable texts show an exchange, a
pipe of two blocks shows a full pipe.  *Game*: three players are the fewest with a
permutation that is not its own inverse, and a wrong translation shows on no
smaller one; three lines let a command with its message or scores follow another
command.  What a list may have wrong with it does not depend on the number of
players, so `game_control` has one.  `StdinCap = 1` makes every write meet a full
pipe.  *Daemon*: the executor looks at the first task only, so a second one stands
for all that wait; it is posted, queued or current at every step of the first.
*Launch*: two players are the fewest with one skipped and one built, so that one person's
directory can spoil the next one's; the documents hold every kind of path (absolute,
relative, empty, not there) at every place, and one of every kind that is refused.  Two
refusals let one build fail and the launch fail as well.  `IntMax` is 15 as TLC's own integers have 32
bits.  *Examples*: ticTacToe is checked as it is; a gomoku board of 3 has all four
directions and fills up to a draw.  It has one window per row only: that windows find
every row on every board is proved (section 5).  The reference for `checkWin` does not
use its windows.  The numbers are those of the board and one or two outside; -1 also
meets cells of ticTacToe's flat array under another name.  The wild lines are two
answers of which the second goes for the other player's, three answers, one answer and
an id, and one answer, so that half answers can meet whole ones.

`CHECK_DEADLOCK FALSE` is set where the system really stops: `liujdg.run` returns,
a container's behaviour ends with its destruction, and a match with its result.

`MaxReads`, `MaxBlocks`, `MaxJudgerLines`, `MaxPlayerLines`, `MaxExits`,
`StdoutCap`, `MaxCrashes`, `MaxDbFailures` and `MaxErrors` are the bounds in the guards;
`Numbers` and `WildLines` bound what strangers print, `Fates` what may become of the
daemon's children.
`PipeCap` and `StdinCap` are capacities the system has (in lines, not bytes).

### Fairness

* `LProcess_container!Fairness`: threads of `std::async` run, `wait_for` has a time
  limit, the destructor's loop goes on.  Nothing is assumed of the child, and no
  call has to be made.  `DestructorReturns` excepts a descendant of the child that
  holds its stdout: deleting a future of `std::async` waits for a reader that nothing
  ends.
* `LGame!FairSpec`: main goes on whenever it can.  A read times out, so this needs
  nothing of the children, except for writes: they have no time limit.
  `ReadingSpec` adds that every running child reads what it is sent.  Without that
  `StepEnds` fails: a child that does not read its stdin holds main in a write for
  ever, though the documentation promises a limit for every step.
* `Executor!FairSpec`: weak fairness for what a thread does once it holds the lock,
  strong fairness for getting `mutex_pro` (the other thread takes and releases it
  for ever; the executor sleeps two seconds in between), and weak fairness for
  `ChildExits`, which only a child that is going to end can do: its `course` says when
  it is launched whether it ends, blocks in a write that nobody reads, or hangs.
  `liujdg.run` may hang, as it limits single reads only: it turns for ever on a judger
  that has closed its stdout and runs on (`LGame.cxx:116`), and a write to a program
  that does not read has no limit (`LGame.cxx:145`); `liujdg.build` waits for what a
  failed build has left behind.  `UndisturbedTasksEnd` is stated for behaviours without
  deaths and failures, after which a status may stay behind for ever, and without
  children that block or hang.
* `Launch!FairSpec`: both programs go on, and so does the thread of `wait_or_kill`
  once the child has ended.  Nothing is assumed of a build: its limit ends it.
  `BuildEnds` excepts what a failed build left behind with its output open.
* `TicTacToe!FairSpec`, `Gomoku!FairSpec`: the match goes on while some program has
  something to do.  No behaviour has a cycle, so this is all that is needed; players
  may spin, exit or be silent.

## 4. Where code and documentation differ

Four differences are runs that are expected to be violated (PROJECT.json
`findings` quotes the lines): `container_overlong`, `game_word_list`,
`game_no_kill`, `game_sigpipe`; so is `executor_blocked`.  Others were met while
modelling, are in the models, and have no run of their own:

* a judger that closes its stdout and goes on running makes main spin, since each
  read returns an empty line at once (`LGame.cxx:116`);
* `#draw` without a comment leaves `""` and `#win` leaves `"No comments"`, though
  `doc/run/README.md:216` calls them equivalent;
* an unknown command is skipped, though `doc/run/README.md:55` counts a wrong
  command among the reasons to end;
* `/get` for an unknown id may answer with an empty status, as the indicator is not
  initialised (`utils.cxx:7`);
* the default of `logdir` is "no logging" (`Ljdgconfig.hpp:17`), but `liujdg.build`
  fails for it (`liujdg.build.cxx:52`) and `liujdg.run` refuses it (`LGame.cxx:67`),
  as the documentation half says (`doc/run/README.md:53`);
* a relative `basedir` is entered twice, by `main` and by `init` (`LGame.cxx:64`), and
  `liujdg.build`, unlike `liujdg.run`, does not go to the directory of the JSON file
  first: `Documented` in `Launch` says under what settings the two meet;
* an absolute `folder` is made by `liujdg.build`, but is not what the sandbox shows
  (`LProcess_sandboxed_c.cxx:11` joins it with boost, which does not let it replace
  the directory);
* errors before the log is open are written to the null device, though
  `doc/run/README.md:56` says that the reason is logged;
* the judger of ticTacToe does not see a line behind an empty row or column
  (`judger.cpp:58`), which a stranger's player can bring about, and does not check that
  a cell is on the board, as `examples/ticTacToe/README.md` admits;
* both judgers read tokens (`judger.cpp:252` of ticTacToe, `judger.cpp:108` of gomoku),
  so that a line of several answers moves for the other player as well, whose own board
  then differs from the judger's; when player 1 prints "0 0 2 0 0", player 2 loses for
  "Wrong operation by one player" (`judger.cpp:304`) without having been asked, though
  `doc/run/README.md:166` says that answers are read from the stdout of the player whose
  id they carry; after half an answer the judger waits for a line that
  nobody was asked for, and the error names the judger;
* gomoku's judger reads on after an answer that was not a number (`judger.cpp:108`),
  and may declare its author the winner.

## 5. Proofs

What is proved, for every value of the constants that satisfies the named
assumption of the module:

* `LProcess_container_proofs` (from `ContainerAssumption`): `TypeOK`,
  `OneReadAtATime`, `InOrder`, `NoReadAfterFree`, and the refinement of `LineChannel`
  (`ImplementsChannel`).
* `LGame_proofs` (from `GameAssumption`): `TypeOK`, `AnswersAreAttributed`,
  `ResultIsTheJudgers`, `ExitTellsOutcome`; `LGame_delivers`: `DeliversToAddressees`,
  under `SendsAreLists`.
* `Executor_proofs` (from `ExecutorAssumption`): `TypeOK`, `ChildIsOfFirstTask`,
  `StatusTellsTruth`, `NothingForgotten`, the action property `SeenNeverGoesBack` and the
  refinement of `TaskLifecycle` (`ImplementsLifecycle`).
* `Launch_proofs` (from `Given`): `TypeOK`, `ReadsWhatWasPosted`, `ReturnCodeTells`,
  `RunsWhereBuilt`, `ResultIsWhereTold`, `NobodyLeftBehind`.
* `Gomoku_proofs` (from `BoardAssumption` and `TokensAssumption`): `checkWin` finds exactly
  the players with five in a row (`CheckWinIsExact`), and `EveryRowIsSeen`, `TypeOK`,
  `VerdictIsRight`, `PlayersSeeTheBoard`.
* `TicTacToe_proofs` (from `TokensAssumption`): `TypeOK`, `VerdictIsRight`,
  `ShippedLinesAreSeen`, `PlayersSeeTheBoard`, for any `LineUps`.

So every safety property of the runs expected to pass is a theorem
(`DeliversToAddressees` under its hypothesis).  TLC checks some pairings of programs, some
numbers and some lines; the theorems are about all.  Types, `EveryRowIsSeen`, and that a
win by play is a line and a draw a full board without one, hold whatever the programs
print.  Who is blamed and what the players know (`PlayersSeeTheBoard`, and the conjuncts
of `VerdictIsRight` that say so) is stated for matches that are `Orderly`: both programs
give one answer a line, right, wrong or half.  Of other matches it is false of the code
(section 4).

The argument is an inductive invariant `IInv` per module: `Init => IInv`, one lemma
per action (or per part of `IInv`, with one step per action) for
`IInv /\ [Next]_vars => IInv'`, and `IInv => ` the property.

*Container.*  `OneReadAtATime` is not inductive: it says nothing of who holds the
mutex, nor of where `cur` and `eventList` point.  `Bookkeeping` adds that
`eventList` holds at most one read, that it is the one `cur` waits for, and that a
read is in it or being waited for exactly while it is unfinished.  `EachReadIsCurrent`
restates the order of lines index by index, so that taking the head of the pipe
and appending to `delivered` shift it by one.

*The container is a channel.*  The queue of `LineChannel` is what the one finished read
holds, in front of the lines of the pipe.  Writing a block and closing map to `Put` and
`Close`, a reader that takes a block to `Arrive`, the returns of a call to `GetLine`,
`GetEndOfFile`, `GiveUp` and `PeekYes`; every other step is a stutter.  The mapping of
`GetEndOfFile` needs one fact more than `IInv` has, `EofIsLast`: behind a read that has
found end of file there is nothing.

*Game.*  Ids are shuffled once, and each command translates them at its own place.
`Shuffled` says that `peopleIndex` is an injection of the processes into themselves,
hence (they are finitely many) every id has a process, so that `At` throws for ids
that are nobody's and for no others.  `Stage` says which step of main may still throw
and what is decided by then, `Identity` that every message on its way carries the id of
the process it is about, `Results` that scores and winners keep up with what the
judger announced, across the index.  `LGame_delivers` counts: a player that runs is
owed what it was given and what is pending in `todo` (`Owing`), and it is told its id
before anything else can be written (`Introduced`).  Its hypothesis `SendsAreLists` is
what the run `game_word_list` violates: a list that ends with a word or a number too
large goes to others as well, so that without it the property is false.

*From a configuration to a game.*  The round trip is settled first: a document the
daemon accepts and writes anew is read back as the same game (`GameIsReadBack`), since
every member it writes has the right type and every default it fills in is what the
reader would have taken.  So both programs work from one `info`, and it never changes.
`Turns` and `AllWell` follow the loop of `liujdg.build` (whose turn is over, and that it
went well as long as the return code is 0), `Child` says whose outcome the child has,
`Sites` where each build ran, `Walk` and `Launched` where `liujdg.run` has come to: under
`Documented`, entering `basedir` twice leads where entering it once does.  `Given` says
of the constants what their use takes for granted: the documents are documents, the
directories are lists of names and those the caller and the files are in exist,
the largest int is at least the default limit.

*Executor.*  What the threads rely on is in four parts: `Locks` (who holds
`mutex_pro`), `CurrentTask` (what `exe`, `type` and `pro` say about how far the
first task is, in terms of `exits`), `QueueIsFresh` (no task is queued twice, and
nothing has happened to those behind the first) and `Posting` (the task that
`/new` works on is not queued yet).  `StatusTellsTruth` needs them because an
update is made from `pro.code`, `NothingForgotten` because a pop is right only if
the first task is over and queued once.  What a client has seen is bounded by the row
it read (`SeenBehind`), the rows go on because an update is true of a task that is
further than its row (`StatusGoesOn`), and a task that a death has lost is never queued
again (`LostAreGone`).  With these, a step of the executor moves the stage of the first
task only, a death moves all that are in memory to lost, and each is a step of
`TaskLifecycle`.

*Gomoku.*  The loops of `checkWin` run over the windows of the board (`Windows`);
`HasFive` says what five in a row means: a cell, a direction, and `Five` cells of one
player from there.  `WindowIsRow` and `RowIsWindow` give the one from the other: the
last cell of a row is on the board, hence its first is within the loop's bounds; the
falling diagonal is read from its other end.  `EveryRowIsSeen` is inductive as it
stands: a move that completes a row makes `checkWin` nonempty, so that the judger's
last line is `#win` and it ends (`WinEndsJudger`), after a misread number too, and no
other step changes the board.  That an answer was read off the wrong end of a line makes
no difference to it.

*A match of gomoku.*  The invariant has two tiers, `WInv /\ (Orderly => BInv)`.  `WInv`
holds whatever is printed: types, `Counts` (moves alternate), and that a verdict, printed
or obeyed, is right by the board (`Right`).  `BInv` is about matches of one answer a
line.  What the judger has printed is then the rest of one script: log, what the other
did, that it is your turn, continue.  `Ahead` counts the lines up to the one that asks,
whether or not the judger has ended and left two more behind.  `Script` and `Turns` say
who is addressed and that at any time either a line, or a question, or an answer is
under way, so that the judger is timed out only when half an answer, of someone who is
not a shipped player, has left it waiting.  `Follows` is what a shipped player knows, by
how far the script is: all, all but the last move, or all and its own answer.  `Named`
says whose answer a verdict is about; who completes a row is who has moved
(`PlacedRow`), since nobody had one before (`EveryRowIsSeen`).  `Counts` needs the stones
of each player to be finitely many (`CellsAreFinite`).

*A match of ticTacToe.*  Again there are two tiers.  In `WInv`, `Counts` says that a judger
that runs has accepted every answer it has read and sees no end, and `Right` that a
verdict follows from the board, or from an offence.  In `BInv`, the script is log, what
the other did, continue; `Script` and `Turns` say whose it is, and that the judger is not
timed out unless half an answer, or a word, of someone who is not a shipped player has
left it waiting or ended it.  `Follows` is what a shipped player knows, as in
gomoku; `getAutoMove` of a game that is not over is a free cell (`AutoMoveIsFree`), and
while the judger runs the game is not over (`Counts`), so a shipped player never prints
"-1 -1" to a judger that reads it.  `Listens` is the part that holds of `bad_runtime/p1`
too, which does not note its own moves: its marks are on the judger's board, or in its
answer on the way there, so that no message names a cell it takes for occupied.

`getWinner` takes the first row or column that is all alike, though it may be empty.  A
verdict is right nevertheless: who is declared winner has a line (`WinnerHasLine`), and
on a full board no line is empty (`FullBoard`).  Three in a row or a column go unseen only
behind an empty one (`Overlooked`), and once the centre and the corner (0, 0) are taken
only the last row and the last column can be empty: the columns looked at after that
row all cross it, and nothing is looked at after that column (`CornerTakenSees`).
`Opening` says that players of the examples come to that: player 1 takes the centre, and
player 2, who hears of it on an empty board, finds nothing to complete and takes the
first corner (`SecondMove`); before that there is one mark at most (`OneMark`).  Against
a stranger it need not be so, and `EveryLineIsSeen` is false.

Only model-checked: liveness (`DestructorReturns`, `StepEnds`, `SilentGameEnds`,
`ClosingEnds`, `UndisturbedTasksEnd`, `NewIsAnswered`, `BuildEnds`,
`BuiltGameLaunches`, `MatchEnds`), which is out of the prover's reach.

## 6. Not modelled

* The text of the JSON: rapidjson and nlohmann turn it into members, which is where
  `Launch` begins.  The checks of `argc`.
* The data race on the stdin stream between a late reader's flush and main.
* Children's stderr, their descendants as the daemon sees them, a child that
  survives a daemon that died, a `std::async` that defers its lambda.
* What the sandbox does with the directories it is told, HTTP parsing, TLS, the fixed
  answers, scripts.
* The examples `sample1`, `sample1-python3` and `bad_build_sample`, games of one
  message or programs that do not build: what they show is in `LGame` and `Launch`.
  In the other examples: dead code (`makeAutoMove`, `twoRobots`), the judger's notes
  in `fk.txt`.
* What the memory around an array holds, and what a write to it does.  A cell outside
  the board of ticTacToe is not free in the model; in the build the byte there could
  hold the character of a free cell, and be written.  The players of the examples print
  such an answer only as "-1 -1", and none to a judger that reads it (proved of the
  shipped ones while each line is one answer).  A player's own write at [-1][-1] is
  `Stays` or `Exits`.  In gomoku `validate` checks the bounds first.
* A player that prints without being asked or told anything, and lines that are no
  tokens at all (blank lines are an error of `LGame`).

## 7. Plan

1. Done: `LineChannel`, `LProcess_container`, `LGame`, `TaskLifecycle`, `Executor`
   and their runs; proofs about the container and the executor.
2. Done: `Launch` (configuration, builds, launches), `Match`, `TicTacToe`, `Gomoku`;
   liveness of container and game checked together with their safety; `EveryRowIsSeen`
   proved.
3. Done: proofs about `LGame` for any number of players and any shuffle, and about
   `Launch`; both refinements; `SeenNeverGoesBack`.
4. Done: `VerdictIsRight` and `PlayersSeeTheBoard` of `Gomoku` for a board of any size,
   from an invariant that says which of judger, relay and players has the move.
5. Done: the same for `TicTacToe`; what both games need of streams is in
   `Match_proofs`.  The judgers' stdin is a stream of tokens, with programs that print
   half an answer or several in a line; what holds of all programs and what of those
   that give one answer a line is stated, and proved, apart.
6. Left: the hazards without a property (PROJECT.json `hazards` says why of each).
