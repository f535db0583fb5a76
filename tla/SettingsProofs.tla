--------------------------- MODULE SettingsProofs ---------------------------
(***************************************************************************)
(* Proofs about Settings, for any fields and any nested limits: what is in *)
(* force is what the files and the command line say, and only mixed forms  *)
(* stop the program.                                                       *)
(***************************************************************************)
EXTENDS Settings, TLAPS

Read(giver, v) == IF v = "ok" THEN giver ELSE v

(* What a TestConf holds after the items s of giver's file, in any order, as *)
(* long as the file uses one form; a file that mixes both still leaves a     *)
(* trace of each.                                                            *)
Holds(c, s, giver) ==
    /\ c.keep = s.keep
    /\ c.form = "none" => s.nest = NoNest /\ s.flat = Blank /\ ~s.unknown
    /\ c.form = "none" => c.lim = Blank /\ ~c.extra
    /\ c.form \in {"dict", "scalar"} => s.nest # NoNest
    /\ c.form = "object" => s.flat # Blank \/ s.unknown
    /\ c.extra /\ c.form = "object" => s.unknown
    /\ s.nest = NoNest =>
           c.form \in {"none", "object"} /\ c.lim = [f \in Fields |-> Read(giver, s.flat[f])]
    /\ s.nest # NoNest /\ s.flat = Blank /\ ~s.unknown =>
           c.form = s.nest.form /\ ~c.reset
               /\ c.lim = [f \in Fields |-> Read(giver, s.nest.val[f])]

Before == {"exercise", "switches", "limits", "parsed"}

(* At each place, which of the models hold what which file says. *)
Reading ==
    /\ phase \in Before =>
           /\ said = [s \in Files |-> Nothing]
           /\ conf = NoConf /\ main = NoConf
    /\ phase = "root" => /\ said["own"] = Nothing /\ main = NoConf
                         /\ Holds(conf, said["root"], "root")
    /\ phase \in {"own", "judge"} => /\ Holds(conf, said["own"], "own")
                                     /\ Holds(main, said["root"], "root")

(* What is in force is main's testconf, updated once. *)
Settled == phase = "judge" => ~Raises(main, conf) /\ force = Updated(main, conf)

IInv == TypeOK /\ Reading /\ Settled /\ FailsOnlyMixed

Says1 == [nest : Shapes \cup {NoNest}, flat : [Fields -> {"none", "ok", "bad"}],
          unknown : BOOLEAN, keep : {"none", "on", "off"}]

(* A given limit is never mistaken for none. *)
LEMMA ShapesAreGiven ==
  \A s \in Shapes : /\ s \in Shape /\ s # NoNest /\ s.form \in {"dict", "scalar"}
                    /\ s.val \in [Fields -> {"none", "ok", "bad"}] /\ s.extra \in BOOLEAN
  <1> SUFFICES ASSUME NEW s \in Shapes
               PROVE  /\ s \in Shape /\ s # NoNest /\ s.form \in {"dict", "scalar"}
                      /\ s.val \in [Fields -> {"none", "ok", "bad"}] /\ s.extra \in BOOLEAN
    OBVIOUS
  <1>1. s \in Shape
    BY FieldAssumption
  <1>2. CASE s \in [form : {"dict"}, val : [Fields -> {"none", "ok", "bad"}], extra : BOOLEAN]
    BY <1>1, <1>2 DEF NoNest
  <1>3. CASE s \in [form : {"scalar"}, val : {Blank}, extra : {FALSE}]
    <2>1. Blank \in [Fields -> {"none", "ok", "bad"}]
      BY DEF Blank
    <2>2. s.form = "scalar" /\ s.val = Blank /\ s.extra = FALSE
      BY <1>3
    <2>3. QED
      <3>1. NoNest.form = "none"
        BY DEF NoNest
      <3>2. s # NoNest
        BY <2>2, <3>1
      <3>3. QED
        BY <1>1, <2>1, <2>2, <3>2
  <1>4. QED
    BY <1>1, <1>2, <1>3 DEF Shape

(* A TestConf that was given nothing is a TestConf.                        *)
LEMMA BlankType == Blank \in [Fields -> {"none", "ok", "bad"}] /\ Blank \in [Fields -> Raw]
                   /\ Blank \in [Fields -> {"none", "argv", "bad"}]
                   /\ NoConf \in Confs /\ Nothing \in Says1
  BY DEF Blank, Raw, Givers, NoConf, Confs, Nothing, Says1, NoNest

(* Updating a TestConf gives a TestConf. *)
LEMMA UpdatedType ==
  ASSUME NEW c \in Confs, NEW d \in Confs PROVE Updated(c, d) \in Confs
  BY DEF Updated, SetLimit, SetKeep, WithLimit, Merged, Confs, Attr, Raw, Givers

(* What the directory's file says reaches main's testconf. *)
LEMMA UpdatedHolds ==
  ASSUME NEW c \in Confs, NEW s \in Says1, Holds(c, s, "root")
  PROVE  Holds(Updated(NoConf, c), s, "root")
  BY BlankType DEF Updated, SetLimit, SetKeep, WithLimit, Holds, NoConf, Confs, Says1

(* Before any file is read nothing is said and nothing is overlaid.        *)
LEMMA InitIInv == Init => IInv
  <1> SUFFICES ASSUME Init PROVE IInv
    OBVIOUS
  <1>1. TypeOK
    BY BlankType DEF Init, TypeOK, Says1, Files
  <1>2. QED
    BY <1>1 DEF Init, IInv, Reading, Settled, FailsOnlyMixed, Before, Files

(* Every step preserves the invariant: one case per action. *)
LEMMA NextIInv == IInv /\ [Next]_vars => IInv'
  <1> SUFFICES ASSUME IInv, [Next]_vars PROVE IInv'
    OBVIOUS
  <1>t. TypeOK /\ said \in [Files -> Says1]
    BY DEF IInv, TypeOK, Says1
  <1>1. CASE Exercise
    <2>1. TypeOK'
      BY <1>1, <1>t, FieldAssumption DEF Exercise, TypeOK, Files
    <2>2. QED
      BY <1>1, <2>1 DEF Exercise, IInv, Reading, Settled,
         FailsOnlyMixed, Before, Files, TypeOK
  <1>2. CASE Switches
    <2>1. TypeOK'
      BY <1>2, <1>t DEF Switches, Switched, TypeOK, Files
    <2>2. QED
      BY <1>2, <2>1 DEF Switches, Switched, IInv, Reading, Settled,
         FailsOnlyMixed, Before, Files, TypeOK
  <1>3. CASE Limits
    <2>1. TypeOK'
      BY <1>3, <1>t DEF Limits, TypeOK, Files
    <2>2. QED
      BY <1>3, <2>1 DEF Limits, IInv, Reading, Settled,
         FailsOnlyMixed, Before, Files, TypeOK
  <1>4. CASE Parsed
    <2>1. TypeOK'
      BY <1>4, <1>t, BlankType DEF Parsed, TypeOK, Files, NoArgs, Blank
    <2>2. Holds(NoConf, Nothing, "root")
      BY BlankType DEF Holds, NoConf, Nothing, NoNest, Blank, Read
    <2>3. QED
      BY <1>4, <2>1, <2>2 DEF Parsed, IInv, Reading, Settled, FailsOnlyMixed, Before, Files
  <1>5. ASSUME NEW f \in Fields, NEW v \in {"ok", "bad"}, ReadField(f, v)
        PROVE  IInv'
    <2>1. TypeOK'
      <3>1. conf' \in Confs
        BY <1>5, <1>t DEF ReadField, WithField, Given, TypeOK, Files, Confs, Raw, Givers,
           Here
      <3>2. said' \in [Files -> Says1]
        BY <1>5, <1>t DEF ReadField, Here, Files, Says1
      <3>3. QED
        BY <1>5, <1>t, <3>1, <3>2 DEF ReadField, TypeOK, Says1
    <2>2. Holds(conf, said[phase], phase) => Holds(conf', said'[phase], phase)
      <3>1. /\ phase \in Files /\ said[phase] \in Says1 /\ conf \in Confs
            /\ said'[phase] = [said[phase] EXCEPT !.flat[f] = v]
            /\ conf' = WithField(conf, f, Given(v)) /\ said[phase].flat[f] = "none"
        BY <1>5, <1>t DEF ReadField, Here, TypeOK
      <3>2. said'[phase].flat = [said[phase].flat EXCEPT ![f] = v]
            /\ said'[phase].nest = said[phase].nest /\ said'[phase].keep = said[phase].keep
            /\ said'[phase].unknown = said[phase].unknown /\ said'[phase].flat[f] = v
        BY <3>1 DEF Says1
      <3>3. said'[phase].flat # Blank
        BY <3>2 DEF Blank
      <3>4. CASE conf.form \in {"none", "object"}
        <4>1. /\ conf'.form = "object" /\ conf'.keep = conf.keep /\ conf'.extra = conf.extra
              /\ conf'.lim = [conf.lim EXCEPT ![f] = Given(v)]
          BY <3>1, <3>4 DEF WithField, Confs
        <4>2. Read(phase, v) = Given(v)
          BY DEF Read, Given
        <4>3. ASSUME conf.lim = [g \in Fields |-> Read(phase, said[phase].flat[g])]
              PROVE  conf'.lim = [g \in Fields |-> Read(phase, said'[phase].flat[g])]
          BY <3>1, <3>2, <4>1, <4>2, <4>3 DEF Says1
        <4>4. QED
          BY <3>1, <3>2, <3>3, <3>4, <4>1, <4>3 DEF Holds, Confs
      <3>5. CASE conf.form \notin {"none", "object"}
        BY <3>1, <3>2, <3>3, <3>5 DEF Holds, Confs, WithField
      <3>6. QED
        BY <3>4, <3>5
    <2>3. said' = [said EXCEPT ![phase] = said'[phase]] /\ phase \in Files
      BY <1>5, <1>t DEF ReadField, Here, Says1, Files
    <2>4. QED
      BY <1>5, <1>t, <2>1, <2>2, <2>3 DEF ReadField, IInv, Reading, Settled,
         FailsOnlyMixed, Before, Files
  <1>6. CASE ReadUnknown
    <2>1. TypeOK'
      <3>1. conf' \in Confs
        BY <1>6, <1>t DEF ReadUnknown, WithUnknown, TypeOK, Confs
      <3>2. said' \in [Files -> Says1]
        BY <1>6, <1>t DEF ReadUnknown, Here, Files, Says1
      <3>3. QED
        BY <1>6, <1>t, <3>1, <3>2 DEF ReadUnknown, TypeOK, Says1
    <2>2. Holds(conf, said[phase], phase) => Holds(conf', said'[phase], phase)
      BY <1>6, <1>t DEF ReadUnknown, WithUnknown, Read, Holds, Here, TypeOK, Confs,
         Says1, Blank, NoNest, Files
    <2>3. said' = [said EXCEPT ![phase] = said'[phase]] /\ phase \in Files
      BY <1>6, <1>t DEF ReadUnknown, Here, Says1, Files
    <2>4. QED
      BY <1>6, <1>t, <2>1, <2>2, <2>3 DEF ReadUnknown, IInv, Reading, Settled,
         FailsOnlyMixed, Before, Files
  <1>7. ASSUME NEW s \in Shapes, ReadLimit(s)
        PROVE  IInv'
    <2> DEFINE new == [form |-> s.form, lim |-> [f \in Fields |-> Given(s.val[f])],
                       extra |-> s.extra]
    <2>1. /\ s # NoNest /\ s.form \in {"dict", "scalar"} /\ s.extra \in BOOLEAN
          /\ s.val \in [Fields -> {"none", "ok", "bad"}]
      BY ShapesAreGiven
    <2>2. phase \in Files /\ said' = [said EXCEPT ![phase].nest = s]
          /\ said[phase].nest = NoNest
      BY <1>7 DEF ReadLimit, Here
    <2>3. new.lim \in [Fields -> Raw]
      BY <2>1, <2>2 DEF Given, Raw, Givers, Files
    <2>4. said' \in [Files -> Says1]
      BY <2>2, <1>t DEF Says1
    <2>5. CASE Raises(conf, new)
      <3>1. Crash
        BY <1>7, <2>5 DEF ReadLimit
      <3>2. conf.form # "none"
        BY <2>5 DEF Raises
      <3>3. Holds(conf, said[phase], phase)
        BY <2>2 DEF IInv, Reading, Files
      <3>4. said'[phase].flat # Blank \/ said'[phase].unknown
        BY <1>t, <2>1, <2>2, <3>2, <3>3 DEF Flat, Holds, TypeOK, Confs, Says1, Files
      <3>5. said'[phase].nest # NoNest
        BY <1>t, <2>1, <2>2 DEF Files, Says1
      <3>6. phase \in {"root", "own"}
        BY <2>2 DEF Files
      <3>7. FailsOnlyMixed'
        BY <3>1, <3>4, <3>5, <3>6 DEF FailsOnlyMixed, OneForm, Flat, Nests, Files
      <3>8. TypeOK'
        BY <1>t, <2>4, <3>1 DEF TypeOK, Crash, Files, Says1
      <3>9. QED
        BY <3>1, <3>7, <3>8 DEF Crash, IInv, Reading, Settled, Before
    <2>6. CASE ~Raises(conf, new)
      <3>1. /\ conf' = SetLimit(conf, new)
            /\ UNCHANGED <<phase, args, stderr, shared, main, force, second>>
        BY <1>7, <2>6 DEF ReadLimit
      <3>2. conf' \in Confs
        <4> HIDE DEF new
        <4>1. new.form \in {"dict", "scalar"} /\ new.extra \in BOOLEAN
          BY <2>1 DEF new
        <4>2. QED
          BY <1>t, <2>3, <3>1, <4>1 DEF TypeOK, Confs, SetLimit, WithLimit, Merged, Attr,
             Raw, Givers
      <3>3. TypeOK'
        BY <1>t, <2>4, <3>1, <3>2 DEF TypeOK, Says1
      <3>4. Holds(conf, said[phase], phase) => Holds(conf', said'[phase], phase)
        BY <1>t, <2>1, <2>2, <2>6, <3>1 DEF SetLimit, WithLimit, Merged, Raises, Empty,
           Holds, Given, Read, Attr, TypeOK, Confs, Says1, Blank, Files
      <3>5. said' = [said EXCEPT ![phase] = said'[phase]]
        BY <1>t, <2>2 DEF Says1, Files
      <3>6. QED
        BY <1>t, <2>2, <3>1, <3>3, <3>4, <3>5 DEF IInv, Reading, Settled, FailsOnlyMixed, Before, Files
    <2>7. QED
      BY <2>5, <2>6
  <1>8. ASSUME NEW v \in {"on", "off"}, ReadKeep(v)
        PROVE  IInv'
    <2>1. TypeOK'
      BY <1>8, <1>t DEF ReadKeep, SetKeep, TypeOK, Files, Confs, Here
    <2>2. Holds(conf, said[phase], phase) => Holds(conf', said'[phase], phase)
      BY <1>8, <1>t DEF ReadKeep, SetKeep, Read, Holds, Here, TypeOK, Confs, Says1, Files
    <2>3. said' = [said EXCEPT ![phase] = said'[phase]] /\ phase \in Files
      BY <1>8, <1>t DEF ReadKeep, Here, Says1, Files
    <2>4. QED
      BY <1>8, <1>t, <2>1, <2>2, <2>3 DEF ReadKeep, IInv, Reading, Settled,
         FailsOnlyMixed, Before, Files
  <1>9. CASE UpdateMain
    <2>1. TypeOK'
      BY <1>9, <1>t, BlankType, UpdatedType DEF UpdateMain, TypeOK, Files
    <2>2. Holds(main', said["root"], "root")
      BY <1>9, <1>t, UpdatedHolds DEF UpdateMain, IInv, Reading, TypeOK, Files
    <2>3. Holds(NoConf, Nothing, "own")
      BY BlankType DEF Holds, NoConf, Nothing, NoNest, Blank, Read
    <2>4. QED
      BY <1>9, <2>1, <2>2, <2>3 DEF UpdateMain, IInv, Reading, Settled, FailsOnlyMixed, Before
  <1>10. CASE UpdateTest
    <2>1. Holds(conf, said["own"], "own") /\ Holds(main, said["root"], "root")
          /\ phase = "own"
      BY <1>10 DEF UpdateTest, IInv, Reading
    <2>2. CASE Raises(main, conf)
      <3>1. Crash /\ UNCHANGED said
        BY <1>10, <2>2 DEF UpdateTest
      <3>2. TypeOK'
        BY <1>t, <3>1 DEF Crash, TypeOK, Files
      <3>3. FailsOnlyMixed'
        BY <1>t, <2>1, <2>2, <3>1 DEF Crash, Raises, Holds, FailsOnlyMixed, OneForm, Flat,
           Nests, Files, TypeOK, Confs, Says1
      <3>4. QED
        BY <3>1, <3>2, <3>3 DEF Crash, IInv, Reading, Settled, Before
    <2>3. CASE ~Raises(main, conf)
      <3>1. TypeOK'
        BY <1>10, <1>t, <2>3, UpdatedType DEF UpdateTest, TypeOK, Files
      <3>2. QED
        BY <1>10, <2>1, <2>3, <3>1 DEF UpdateTest, IInv, Reading, Settled, FailsOnlyMixed, Before
    <2>4. QED
      BY <2>2, <2>3
  <1>11. CASE NextTest
    <2>1. TypeOK'
      BY <1>11, <1>t, BlankType DEF NextTest, TypeOK, Files, Says1
    <2>2. Holds(NoConf, Nothing, "own")
      BY BlankType DEF Holds, NoConf, Nothing, NoNest, Blank, Read
    <2>3. said'["own"] = Nothing /\ said'["root"] = said["root"]
      BY <1>11, <1>t DEF NextTest, Files
    <2>4. QED
      BY <1>11, <2>1, <2>2, <2>3 DEF NextTest, IInv, Reading, Settled, FailsOnlyMixed, Before
  <1>12. CASE UNCHANGED vars
    BY <1>12 DEF vars, IInv, TypeOK, Reading, Settled, FailsOnlyMixed, Before, OneForm, Flat, Nests
  <1>13. QED
    BY <1>1, <1>2, <1>3, <1>4, <1>5, <1>6, <1>7, <1>8, <1>9, <1>10, <1>11, <1>12 DEF Next

(* The inductive invariant behind the theorems below: each model holds what  *)
(* its file says, and what is in force is main's model updated once.         *)
THEOREM Invariance == Spec => []IInv
  <1>1. QED
    BY InitIInv, NextIInv, PTL DEF Spec

(* Every variable stays in its type. *)
THEOREM TypeCorrect == Spec => []TypeOK
  <1>1. IInv => TypeOK
    BY DEF IInv
  <1>2. QED
    BY <1>1, Invariance, PTL

(* Settings fail to be read only where the forms are mixed, or where an      *)
(* unknown field of the test's limit meets a limit of the directory's.       *)
THEOREM FailsOnlyWhereMixed == Spec => []FailsOnlyMixed
  <1>1. IInv => FailsOnlyMixed
    BY DEF IInv
  <1>2. QED
    BY <1>1, Invariance, PTL

(* What is in force for a test is what the files and the command line say:   *)
(* by the fields of the test's own file, then the directory's, then the      *)
(* defaults.                                                                 *)
THEOREM OverlayIsRight == Spec => []Overlaid
  <1>1. ASSUME IInv, phase = "judge", OneForm
        PROVE  /\ \A f \in Fields : Limit(force)[f] = InForce(f)
               /\ force.keep = IF said["own"].keep # "none" THEN said["own"].keep
                                                            ELSE said["root"].keep
    <2>1. /\ Holds(conf, said["own"], "own") /\ Holds(main, said["root"], "root")
          /\ ~Raises(main, conf) /\ force = Updated(main, conf)
      BY <1>1 DEF IInv, Reading, Settled
    <2>2. conf \in Confs /\ main \in Confs /\ shared \in [Fields -> {"none", "argv", "bad"}]
          /\ said["own"] \in Says1 /\ said["root"] \in Says1
      BY <1>1 DEF IInv, TypeOK, Says1, Files
    <2>3. force.keep = IF said["own"].keep # "none" THEN said["own"].keep
                                                    ELSE said["root"].keep
      BY <2>1, <2>2 DEF Updated, SetKeep, SetLimit, WithLimit, Merged, Holds, Confs
    <2>4. /\ force.form = IF main.form # "none" THEN main.form ELSE conf.form
          /\ force.lim = IF conf.form = "none" THEN main.lim
                         ELSE IF main.form = "none" THEN conf.lim
                         ELSE [f \in Fields |-> IF conf.lim[f] = "none" THEN main.lim[f]
                                                ELSE Attr(conf.lim[f])]
          /\ conf.form = "none" => force.reset = main.reset
          /\ conf.form # "none" /\ main.form = "none" => ~force.reset
      BY <2>1, <2>2 DEF Updated, SetKeep, SetLimit, WithLimit, Merged, Confs
    <2>5. \A s \in Shapes : s.form = "scalar" => s.val = Blank
      BY FieldAssumption DEF Shape
    <2>6. ASSUME NEW f \in Fields PROVE Limit(force)[f] = InForce(f)
      <3>1. /\ Says("own", f) \in {"none", "ok", "bad"}
            /\ Says("root", f) \in {"none", "ok", "bad"}
        BY <2>2, ShapesAreGiven, BlankType DEF Says, Nests, Says1, NoNest
      <3>2. CASE ~Nests("own") /\ ~Nests("root")
        BY <1>1, <2>1, <2>2, <2>4, <3>1, <3>2 DEF Limit, InForce, Says, Nests, Flat, Known,
           Attr, Read, Holds, Confs, Says1, NoNest, Files, Blank
      <3>3. CASE Nests("own")
        BY <1>1, <2>1, <2>2, <2>4, <2>5, <3>1, <3>3, ShapesAreGiven DEF Limit, InForce,
           Says, Nests, OneForm, Flat, Known, Attr, Read, Holds, Confs, Says1, NoNest,
           Files, Blank
      <3>4. CASE Nests("root")
        BY <1>1, <2>1, <2>2, <2>4, <2>5, <3>1, <3>4, ShapesAreGiven DEF Limit, InForce,
           Says, Nests, OneForm, Flat, Known, Attr, Read, Holds, Confs, Says1, NoNest,
           Files, Blank
      <3>5. QED
        BY <3>2, <3>3, <3>4
    <2>7. QED
      BY <2>3, <2>6
  <1>2. IInv => Overlaid
    BY <1>1 DEF Overlaid
  <1>3. QED
    BY <1>2, Invariance, PTL

=============================================================================
