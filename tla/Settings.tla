------------------------------ MODULE Settings ------------------------------
(***************************************************************************)
(* Where a test's settings come from: the command line (selfeval.py        *)
(* parse_argv2), the config.json of the data directory, that of the test,  *)
(* and built-in defaults, kept in lib/ds.py's models and laid over one     *)
(* another by main and jury_test.                                          *)
(*                                                                         *)
(* A model keeps what it was given (_real) apart from what it made of it   *)
(* (the attribute).  A TestConf holds a Limit, which a file may give as a  *)
(* whole ("limit": {...}, nested) or field by field ("time": ..., flat).   *)
(* TestConf's class-level Limit is one object for all TestConfs that were  *)
(* given none: shared.                                                     *)
(*                                                                         *)
(* A value is told apart by who gave it: "argv", "root" (the directory's   *)
(* file), "own" (the test's file), or "default"; "bad" is a value no       *)
(* conversion accepts.                                                     *)
(***************************************************************************)
CONSTANTS Fields,   \* the fields of Limit
          Shapes    \* what "limit" may be in a file: see Shape

Blank == [f \in Fields |-> "none"]

(* A dict with some of the fields and perhaps a key nobody knows, or        *)
(* anything else that is no dict; an empty string or list is left out.      *)
Shape == [form : {"dict"}, val : [Fields -> {"none", "ok", "bad"}], extra : BOOLEAN]
             \cup [form : {"scalar"}, val : {Blank}, extra : {FALSE}]

ASSUME FieldAssumption == "memory" \in Fields /\ Shapes \subseteq Shape

VARIABLES
    phase,   \* where parse_argv2, main and jury_test are
    args,    \* the command line, until parse_argv2 returns
    stderr,  \* UserJudge.stderr, which stands for every on/off switch
    shared,  \* the class-level Limit of TestConf
    said,    \* history: what the two files say
    conf,    \* the TestConf a file is being read into
    main,    \* main's testconf
    force,   \* jury_test's testconf
    second   \* the test in hand is the second

vars == <<phase, args, stderr, shared, said, conf, main, force, second>>

Givers == {"argv", "root", "own"}
Files == {"root", "own"}

(* What a field was given; "default" is a default copied by an update. *)
Raw == {"none", "bad", "default"} \cup Givers

(* The attribute made of what was given. *)
Attr(raw) == IF raw \in {"none", "bad"} THEN "default" ELSE raw

(* A TestConf: whether it was given no limit, a Limit, a dict or anything  *)
(* else; what is in it; whether the attribute went back to the default; and *)
(* what keep was given.                                                     *)
Confs == [form : {"none", "object", "dict", "scalar"}, lim : [Fields -> Raw],
          extra : BOOLEAN, reset : BOOLEAN, keep : {"none", "on", "off"}]

NoConf == [form |-> "none", lim |-> Blank, extra |-> FALSE, reset |-> FALSE,
           keep |-> "none"]

(* testconf.limit: a deep copy of the class-level Limit is the default. *)
Limit(c) ==
    [f \in Fields |-> Attr(IF c.form = "object" \/ (c.form = "dict" /\ ~c.reset)
                           THEN c.lim[f] ELSE shared[f])]

NoNest == [form |-> "none", val |-> Blank, extra |-> FALSE]

Nothing == [nest |-> NoNest, flat |-> Blank, unknown |-> FALSE, keep |-> "none"]

(* The command line: each field it gives, -e, and the two flags of a switch, *)
(* of which argparse lets one be given.                                      *)
NoArgs == [flag |-> "none", default |-> FALSE, exercise |-> FALSE, lim |-> Blank]

Init ==
    /\ phase = "exercise"
    /\ args \in [flag : {"none", "on", "off"}, default : BOOLEAN,
                 exercise : BOOLEAN, lim : [Fields -> {"none", "argv", "bad"}]]
    /\ stderr = args.default
    /\ shared = Blank
    /\ said = [s \in Files |-> Nothing]
    /\ conf = NoConf /\ main = NoConf /\ force = NoConf /\ second = FALSE

-----------------------------------------------------------------------------
(* parse_argv2. *)

(* -e: the echoes are switched on, and memory is unlimited. *)
Exercise ==
    /\ phase = "exercise"
    /\ phase' = "switches"
    /\ IF args.exercise
       THEN stderr' = TRUE /\ shared' = [shared EXCEPT !["memory"] = "argv"]
       ELSE UNCHANGED <<stderr, shared>>
    /\ UNCHANGED <<args, said, conf, main, force, second>>

(* The flags --x and --xx of a switch that is on by default, or off, start   *)
(* as TRUE and FALSE, or FALSE and TRUE; store_true can only set them.  The  *)
(* loop sees --x first: if it is set the switch goes on; then --xx, which    *)
(* switches it off.  One of the two is always set, so what was there before  *)
(* does not count, -e's doing included, and a switch that is off by default  *)
(* stays off: --stderr does not do what its help says.                       *)
Switched(now) == LET on == args.flag = "on" \/ args.default
                     off == args.flag = "off" \/ ~args.default
                 IN IF off THEN FALSE ELSE on \/ now

Switches ==
    /\ phase = "switches"
    /\ phase' = "limits"
    /\ stderr' = Switched(stderr)
    /\ UNCHANGED <<args, shared, said, conf, main, force, second>>

(* -t, -m, --fsize: ret.testconf.limit is the class-level Limit. *)
Limits ==
    /\ phase = "limits"
    /\ phase' = "parsed"
    /\ shared' = [f \in Fields |-> IF args.lim[f] = "none" THEN shared[f]
                                                          ELSE args.lim[f]]
    /\ UNCHANGED <<args, stderr, said, conf, main, force, second>>

(* The namespace goes out of scope. *)
Parsed ==
    /\ phase = "parsed"
    /\ phase' = "root" /\ args' = NoArgs
    /\ UNCHANGED <<stderr, shared, said, conf, main, force, second>>

-----------------------------------------------------------------------------
(* TestConf.__setattr__, with the names of its wrappers unfolded. *)

(* "limit.time", or "time", its alias: set on the limit the model was given, *)
(* or on a new one.  A dict or anything else given as "limit" before is no   *)
(* Limit: the item is invalid, and the attribute goes back to the default.   *)
WithField(c, f, raw) ==
    IF c.form \in {"none", "object"}
    THEN [c EXCEPT !.form = "object", !.lim[f] = raw]
    ELSE [c EXCEPT !.reset = TRUE]

WithUnknown(c) ==
    IF c.form \in {"none", "object"}
    THEN [c EXCEPT !.form = "object", !.extra = TRUE]
    ELSE [c EXCEPT !.reset = TRUE]

(* "limit", to a model that was given none: it is kept as it is, and the     *)
(* attribute is converted.                                                   *)
WithLimit(c, new) ==
    [c EXCEPT !.form = new.form, !.lim = new.lim, !.extra = new.extra,
              !.reset = FALSE]

(* "limit", to a model that has one: for each key of the new one, the        *)
(* attribute of that name is read from the new and set on the old; then the  *)
(* old is converted again.                                                   *)
Merged(c, new) ==
    [c EXCEPT !.lim = [f \in Fields |-> IF new.lim[f] = "none" THEN c.lim[f]
                                                              ELSE Attr(new.lim[f])],
              !.reset = FALSE]

Empty(new) == new.lim = Blank /\ ~new.extra

(* A mutated Raises: the limit is merged even into a model that has none. *)
RaisesIfNone(c, new) == c.form = "none" /\ new.form = "object"

(* That needs two models: a dict has no such attributes to read, nor to be   *)
(* set, a number cannot be iterated, and a Limit has no attribute for a key  *)
(* it does not know.                                                         *)
Raises(c, new) ==
    /\ c.form # "none" /\ new.form # "none"
    /\ \/ new.form = "scalar"
       \/ new.form = "dict" /\ ~Empty(new)
       \/ new.form = "object" /\ (c.form # "object" \/ new.extra)

SetLimit(c, new) == IF c.form = "none" THEN WithLimit(c, new) ELSE Merged(c, new)

SetKeep(c, raw) == [c EXCEPT !.keep = raw]

(* Model.update: what the new model was given is set on this one. *)
Updated(c, new) ==
    LET d == IF new.form = "none" THEN c ELSE SetLimit(c, new)
    IN IF new.keep = "none" THEN d ELSE SetKeep(d, new.keep)

-----------------------------------------------------------------------------
(* Reading a config.json, in the order of its items; json5 keeps the last of *)
(* two items with one key.  A missing or an invalid file is one without      *)
(* items.                                                                    *)

Here == phase \in Files

(* A mutated Given: nothing is converted. *)
GivenAsWritten(v) == v

Given(v) == IF v = "ok" THEN phase ELSE v

Crash == /\ phase' = "crashed"
         /\ UNCHANGED <<args, stderr, shared, conf, main, force, second>>

ReadField(f, v) ==
    /\ Here /\ said[phase].flat[f] = "none"
    /\ said' = [said EXCEPT ![phase].flat[f] = v]
    /\ conf' = WithField(conf, f, Given(v))
    /\ UNCHANGED <<phase, args, stderr, shared, main, force, second>>

(* "limit.x" with a field Limit does not have is recorded, warned of and kept. *)
ReadUnknown ==
    /\ Here /\ ~said[phase].unknown
    /\ said' = [said EXCEPT ![phase].unknown = TRUE]
    /\ conf' = WithUnknown(conf)
    /\ UNCHANGED <<phase, args, stderr, shared, main, force, second>>

ReadLimit(s) ==
    /\ Here /\ said[phase].nest = NoNest
    /\ said' = [said EXCEPT ![phase].nest = s]
    /\ LET new == [form |-> s.form, lim |-> [f \in Fields |-> Given(s.val[f])],
                   extra |-> s.extra]
       IN IF Raises(conf, new)
          THEN Crash
          ELSE /\ conf' = SetLimit(conf, new)
               /\ UNCHANGED <<phase, args, stderr, shared, main, force, second>>

(* An invalid keep counts as off, the default, here and in every copy. *)
ReadKeep(v) ==
    /\ Here /\ said[phase].keep = "none"
    /\ said' = [said EXCEPT ![phase].keep = v]
    /\ conf' = SetKeep(conf, v)
    /\ UNCHANGED <<phase, args, stderr, shared, main, force, second>>

(* main: testconf.update(cnf). *)
UpdateMain ==
    /\ phase = "root"
    /\ phase' = "own" /\ main' = Updated(main, conf) /\ conf' = NoConf
    /\ UNCHANGED <<args, stderr, shared, said, force, second>>

(* A mutated UpdateTest: main hands jury_test its own testconf. *)
UpdateTestInPlace ==
    /\ phase = "own"
    /\ IF Raises(main, conf)
       THEN Crash /\ UNCHANGED said
       ELSE /\ phase' = "judge" /\ force' = Updated(main, conf) /\ main' = force'
            /\ UNCHANGED <<args, stderr, shared, said, conf, second>>

(* jury_test, on a deep copy of main's testconf: update(test.conf).  The     *)
(* command line's TestConf was given nothing itself, so it counts as empty   *)
(* and is not laid over.                                                     *)
UpdateTest ==
    /\ phase = "own"
    /\ IF Raises(main, conf)
       THEN Crash /\ UNCHANGED said
       ELSE /\ phase' = "judge" /\ force' = Updated(main, conf)
            /\ UNCHANGED <<args, stderr, shared, said, conf, main, second>>

(* The next test of the loop in main. *)
NextTest ==
    /\ phase = "judge" /\ ~second
    /\ phase' = "own" /\ second' = TRUE
    /\ said' = [said EXCEPT !["own"] = Nothing]
    /\ conf' = NoConf /\ force' = NoConf
    /\ UNCHANGED <<args, stderr, shared, main>>

Next ==
    \/ Exercise \/ Switches \/ Limits \/ Parsed
    \/ \E f \in Fields, v \in {"ok", "bad"} : ReadField(f, v)
    \/ \E s \in Shapes : ReadLimit(s)
    \/ ReadUnknown
    \/ \E v \in {"on", "off"} : ReadKeep(v)
    \/ UpdateMain \/ UpdateTest \/ NextTest

Spec == Init /\ [][Next]_vars

-----------------------------------------------------------------------------
(* Properties. *)

TypeOK ==
    /\ phase \in {"exercise", "switches", "limits", "parsed", "judge", "crashed"} \cup Files
    /\ args \in [flag : {"none", "on", "off"}, default : BOOLEAN,
                 exercise : BOOLEAN, lim : [Fields -> {"none", "argv", "bad"}]]
    /\ stderr \in BOOLEAN /\ second \in BOOLEAN
    /\ shared \in [Fields -> {"none", "argv", "bad"}]
    /\ said \in [Files -> [nest : Shapes \cup {NoNest},
                           flat : [Fields -> {"none", "ok", "bad"}],
                           unknown : BOOLEAN,
                           keep : {"none", "on", "off"}]]
    /\ conf \in Confs /\ main \in Confs /\ force \in Confs

(* What a file says of a field, whichever form it says it in. *)
Nests(s) == said[s].nest # NoNest
Flat(s) == said[s].flat # Blank \/ said[s].unknown
Says(s, f) == IF Nests(s) THEN said[s].nest.val[f] ELSE said[s].flat[f]

(* The forms are not mixed: either no file has a nested limit, or one has,   *)
(* and it is all that the files say of limits.                               *)
OneForm == \A s \in Files : Nests(s) => ~Flat("root") /\ ~Flat("own")
                                        /\ (\A r \in Files \ {s} : ~Nests(r))

Known(raw, giver) == CASE raw = "ok" -> giver [] OTHER -> "default"

(* The settings in force, told from the files alone: the test's own file     *)
(* decides a field it mentions, else the directory's; a field neither        *)
(* mentions has its default - except that as long as no file gives any limit *)
(* at all it is the command line's.  Update by update this must come out, by *)
(* way of raw values, conversions, shared objects and copies, for the second *)
(* test as for the first.                                                    *)
InForce(f) ==
    CASE Says("own", f) # "none"  -> Known(Says("own", f), "own")
      [] Says("own", f) = "none" /\ Says("root", f) # "none"
                                  -> Known(Says("root", f), "root")
      [] OTHER -> IF \E s \in Files : Flat(s) \/ said[s].nest.form = "dict"
                  THEN "default" ELSE Attr(shared[f])

Overlaid ==
    phase = "judge" /\ OneForm =>
        /\ \A f \in Fields : Limit(force)[f] = InForce(f)
        /\ force.keep = IF said["own"].keep # "none" THEN said["own"].keep
                                                     ELSE said["root"].keep

(* Reading settings fails only where a nested limit meets another mention of *)
(* limits, or an unknown field of the test's limit meets the directory's:    *)
(* flat files of known fields, and a nested limit alone, never stop it.      *)
FailsOnlyMixed ==
    phase = "crashed" => ~OneForm \/ (said["own"].unknown /\ Flat("root"))

(* docs: what is given at the start overrides every configuration file. *)
ArgvWins ==
    phase = "judge" =>
        \A f \in Fields : shared[f] = "argv" => Limit(force)[f] = "argv"

=============================================================================
