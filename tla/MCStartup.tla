----------------------------- MODULE MCStartup ------------------------------
(* Instances of Startup for TLC. *)
EXTENDS Startup

CONSTANTS db, www, job, ghost, main, more, web, batch, none, x, y, z, p, q, r

Plain(needs) ==
  [mode |-> "none", requires |-> needs, limits |-> <<>>, readable |-> TRUE,
   lines |-> <<>>, pass |-> <<>>, new |-> <<>>, streams |-> {}]

Remote(server, local) == [to |-> "rsyslog", server |-> server, local |-> local]

Limits ==
  ("small" :> [max_procs |-> 1, max_mem |-> 3]) @@ ("large" :> [max_procs |-> 2, max_files |-> 2])
    @@ ("huge" :> [max_mem |-> 5]) @@ ("strange" :> [other |-> 1])

FileOf(second, inWeb, inBatch, applications) ==
  [inits        |-> (main :> <<web>>) @@ (more :> second),
   groups       |-> (web :> inWeb) @@ (batch :> inBatch),
   applications |-> applications,
   limits       |-> Limits,
   checks       |-> {"good"}]

(* Three mentions of applications which require whatever they like. *)
Shapes ==
  { FileOf(s[1], s[2], s[3], (db :> Plain(of[1])) @@ (www :> Plain(of[2])) @@ (job :> Plain(of[3])))
    : s \in { <<<<batch>>, <<db>>, <<job, www>>>>,     <<<<batch>>, <<www, db>>, <<job>>>>,
              <<<<batch>>, <<www, db>>, <<db>>>>,      <<<<web, batch>>, <<db>>, <<job>>>>,
              <<<<web, web>>, <<www>>, <<ghost>>>> },
      of \in [1 .. 3 -> SUBSET {db, www, job}] }

(* One entry with everything that an entry may say. *)
WithDb(entry) ==
  FileOf(<<batch>>, <<db>>, <<www, job>>, (db :> entry) @@ (www :> Plain({ghost})) @@ (job :> Plain({db})))

Entries ==
  { [Plain({}) EXCEPT !.limits = ls, !.lines = ln, !.pass = ps, !.new = nw,
                      !.streams = {[to |-> "file"], Remote("address", "none")}]
    : ls \in {<<>>, <<"small">>, <<"large", "small">>, <<"small", "large", "huge">>},
      ln \in {<<>>, <<<<x, p>>, <<y, q>>, <<x, r>>>>},
      ps \in {<<>>, x :> y, (x :> z) @@ (y :> z), z :> x},
      nw \in {<<>>, x :> q, z :> p} }

Faulty ==
  { [Plain({}) EXCEPT !.mode = "other"], [Plain({}) EXCEPT !.readable = FALSE],
    [Plain({}) EXCEPT !.streams = {Remote("address", "nonsense")}],
    [Plain({}) EXCEPT !.limits = <<"small", "strange">>],
    [Plain({}) EXCEPT !.limits = <<"small", "none">>] }

Dangling ==
  { FileOf(<<batch, none>>, <<db>>, <<www>>, (db :> Plain({})) @@ (www :> Plain({}))),
    FileOf(<<batch>>, <<db>>, <<www, ghost>>, (db :> Plain({})) @@ (www :> Plain({}))),
    FileOf(<<batch, web, web>>, <<db>>, <<ghost>>, db :> Plain({})),
    [WithDb(Plain({})) EXCEPT !.checks = {"good", "bad"}] }

TheFiles == Shapes \cup {WithDb(e) : e \in Entries \cup Faulty} \cup Dangling

TheOwn == (x :> p) @@ (y :> r)
=============================================================================
