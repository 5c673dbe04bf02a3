------------------------------ MODULE Launch_MC ------------------------------
(* Documents for the model checker: a complete one whose paths vary, and one *)
(* of every kind that is refused.                                            *)
EXTENDS Launch

Home_    == <<"home">>
FileDirs == {<<"home">>, <<"games">>}

\* Where the sources lie, reachable from the caller's directory and from others.
Places == {<<>>, <<"home">>, <<"games">>} \cup
          {at \o p : at \in {<<"home">>, <<"games">>},
                     p \in {<<"judger">>, <<"p1">>, <<"g">>, <<"g", "p1">>, <<"g", "judger">>,
                            <<"g", "g">>, <<"judger", "p1">>}}

Human(id, build, folder, basedir) ==
  [fields |-> PersonFields, id |-> id, build |-> build, folder |-> folder, basedir |-> basedir]

Judger == Human("j", "make", Path(FALSE, <<"data">>), Path(FALSE, <<"judger">>))
Rookie == Human("a", ".", NoPath, Path(FALSE, <<"p1">>))
Built  == Human("b", "make", Path(FALSE, <<"data">>), Path(FALSE, <<"p1">>))
Absent == Human("c", "make", Path(FALSE, <<"data">>), Path(FALSE, <<"gone">>))
Abroad == Human("d", "", Path(TRUE, <<"home", "d">>), Path(TRUE, <<"home", "p1">>))

ConfigFields == {"logdir", "basedir", "timeLimit", "buildTimeLimit"}
Conf(logdir, basedir) ==
  [fields |-> ConfigFields, logdir |-> logdir, basedir |-> basedir,
   timeLimit |-> 5, buildTimeLimit |-> IntMax + 1]

Doc(players, conf) ==
  [kind |-> "object", fields |-> GameFields, judger |-> Judger, players |-> players, config |-> conf]

Log   == Path(FALSE, <<"log">>)
Plain == Doc(<<Built>>, Conf(Log, NoPath))

Good ==
  {Plain, Doc(<<Rookie, Built>>, Conf(Log, Here)), Doc(<<Absent>>, Conf(Log, Here)),
   Doc(<<Abroad>>, Conf(Path(TRUE, <<"log">>), Path(TRUE, <<"home", "g">>))),
   Doc(<<Built>>, Conf(Log, Path(TRUE, <<"home">>))),
   Doc(<<Built>>, Conf(Log, Path(FALSE, <<"g">>)))}

Defaults == {[Plain EXCEPT !.config = [Conf(Log, Here) EXCEPT !.fields = {}]]}

Bad ==
  {[Plain EXCEPT !.kind = "broken"], [Plain EXCEPT !.kind = "other"],
   [Plain EXCEPT !.fields = GameFields \ {"config"}],
   [Plain EXCEPT !.judger.fields = PersonFields \ {"run"}],
   [Plain EXCEPT !.players = <<Built, [Rookie EXCEPT !.fields = {}]>>],
   Doc(<<Built>>, Conf(Log, Path(FALSE, <<"nowhere">>)))}

AllJsons == Good \cup Defaults \cup Bad
=============================================================================
