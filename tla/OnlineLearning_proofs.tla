----------------------- MODULE OnlineLearning_proofs ------------------------
(***************************************************************************)
(* What is proved of the online learning experiment for any configuration, *)
(* environment and number of trials.                                       *)
(***************************************************************************)
EXTENDS OnlineLearning, TLAPS

\* Types, as far as they are needed.
Types ==
  /\ config \in Config
  /\ tt \in Nat
  /\ ss \in Nat
  /\ trained \in Nat
  /\ given \in Nat
  /\ curve \in Seq(Int)

LEMMA Typed == Spec => []Types
<1> USE OnlineLearningAssumption DEF Types, Config
<1>1. Init => Types BY DEF Init
<1>2. Types /\ [Next]_vars => Types'
  <2> SUFFICES ASSUME Types, [Next]_vars PROVE Types' OBVIOUS
  <2>1. CASE UNCHANGED vars BY <2>1 DEF vars
  <2>2. CASE StartTrial BY <2>2 DEF StartTrial
  <2>3. ASSUME NEW last \in 0..2, NEW seen \in BOOLEAN,
               StepEnvironment(last, seen)
        PROVE  Types'
    BY <2>3 DEF StepEnvironment
  <2>4. CASE TellAgent
    <3>1. Counted \in {0, 1} BY DEF Counted
    <3> QED BY <2>4, <3>1 DEF TellAgent
  <2>5. CASE Report
    <3>1. Label \in Int BY DEF Label, test_interval_
    <3> QED BY <2>5, <3>1 DEF Report
  <2>6. CASE Save BY <2>6 DEF Save
  <2>7. CASE EndRun
    <3>1. curve' \in {curve, <<>>} /\ tt' \in {tt, 0} /\ ss' \in {ss, 0}
      BY <2>7 DEF EndRun
    <3>2. trained' \in {trained, 0} /\ given' \in {given, 0}
      BY <2>7 DEF EndRun
    <3>3. config' = config BY <2>7 DEF EndRun
    <3>4. <<>> \in Seq(Int) OBVIOUS
    <3>5. curve' \in Seq(Int) BY <3>1, <3>4
    <3> HIDE DEF Config
    <3> QED BY <3>1, <3>2, <3>3, <3>5
  <2>8. CASE Finished BY <2>8 DEF Finished, vars
  <2> QED
    BY <2>1, <2>2, <2>3, <2>4, <2>5, <2>6, <2>7, <2>8 DEF Next
<1> QED BY <1>1, <1>2, PTL DEF Spec

-----------------------------------------------------------------------------
\* For every configuration: the steps that count towards the limit of a run
\* are the transitions that the learner is given (online_learning.cpp:190).
THEOREM BudgetIsSpent == Spec => []StepsCounted
<1>1. Init => StepsCounted BY DEF Init, StepsCounted
<1>2. Types /\ StepsCounted /\ [Next]_vars => StepsCounted'
  <2> SUFFICES ASSUME Types, StepsCounted, [Next]_vars
               PROVE  StepsCounted'
    OBVIOUS
  <2> USE DEF StepsCounted, Types
  <2>1. CASE UNCHANGED vars BY <2>1 DEF vars
  <2>2. CASE StartTrial BY <2>2 DEF StartTrial
  <2>3. ASSUME NEW last \in 0..2, NEW seen \in BOOLEAN,
               StepEnvironment(last, seen)
        PROVE  StepsCounted'
    BY <2>3 DEF StepEnvironment
  <2>4. CASE TellAgent BY <2>4 DEF TellAgent, Counted
  <2>5. CASE Report BY <2>5 DEF Report
  <2>6. CASE Save BY <2>6 DEF Save
  <2>7. CASE EndRun BY <2>7 DEF EndRun, ResetAfter
  <2>8. CASE Finished BY <2>8 DEF Finished, vars
  <2> QED
    BY <2>1, <2>2, <2>3, <2>4, <2>5, <2>6, <2>7, <2>8 DEF Next
<1> QED BY <1>1, <1>2, Typed, PTL DEF Spec

\* For every number of runs: each begins with a learner that has been reset
\* (online_learning.cpp:265).
THEOREM RunsAreSeparate == Spec => []FreshRun
<1>1. Init => FreshRun BY DEF Init, FreshRun
<1>2. Types /\ FreshRun /\ [Next]_vars => FreshRun'
  <2> SUFFICES ASSUME Types, FreshRun, [Next]_vars PROVE FreshRun' OBVIOUS
  <2> USE DEF FreshRun, Types
  <2>1. CASE UNCHANGED vars BY <2>1 DEF vars
  <2>2. CASE StartTrial BY <2>2 DEF StartTrial
  <2>3. ASSUME NEW last \in 0..2, NEW seen \in BOOLEAN,
               StepEnvironment(last, seen)
        PROVE  FreshRun'
    BY <2>3 DEF StepEnvironment
  <2>4. CASE TellAgent BY <2>4 DEF TellAgent
  <2>5. CASE Report BY <2>5 DEF Report
  <2>6. CASE Save BY <2>6 DEF Save
  <2>7. CASE EndRun BY <2>7 DEF EndRun, ResetAfter
  <2>8. CASE Finished BY <2>8 DEF Finished, vars
  <2> QED
    BY <2>1, <2>2, <2>3, <2>4, <2>5, <2>6, <2>7, <2>8 DEF Next
<1> QED BY <1>1, <1>2, Typed, PTL DEF Spec

\* For every number of runs: the policy that is saved at the end of a run is
\* the one it has learnt, and not that of the reset that follows
\* (online_learning.cpp:251-266).
THEOREM RunsAreSaved == Spec => SavedEveryRun
<1>1. [Next]_vars =>
        [save_every_ = "run" /\ rr' # rr =>
           saves' = Append(saves, [run |-> rr, trained |-> trained])]_vars
  BY DEF Next, vars, StartTrial, StepEnvironment, TellAgent, Report, Save,
         EndRun, Saved, Finished
<1> QED BY <1>1, PTL DEF Spec, SavedEveryRun

-----------------------------------------------------------------------------
LEMMA Quotient ==
  ASSUME NEW m \in Nat \ {0}, NEW q \in Nat, NEW r \in 0..m-1
  PROVE  (q * m + r) % m = r /\ (q * m + r) \div m = q
<1> DEFINE x == q * m + r
           d == x \div m
           e == x % m
<1>1. x \in Nat OBVIOUS
<1>2. d \in Int /\ e \in 0..m-1 /\ x = m * d + e BY <1>1
<1>3. (q - d) * m = e - r BY <1>2
<1>4. CASE q > d
  <2>1. (q - d) * m >= m BY <1>4, <1>2
  <2> QED BY <2>1, <1>3, <1>2
<1>5. CASE q < d
  <2>1. (d - q) * m >= m BY <1>5, <1>2
  <2> QED BY <2>1, <1>3, <1>2
<1>6. CASE q = d BY <1>6, <1>2, <1>3
<1> QED BY <1>4, <1>5, <1>6, <1>2

\* The test trials of this run that are over.
Tests == IF pc = "save" /\ IsTest(tt) THEN Len(curve) - 1 ELSE Len(curve)

\* The learner has begun a trial that is not over.
Learning ==
  IF pc \in {"environment", "agent", "report", "save"} /\ ~IsTest(tt)
    THEN 1 ELSE 0

\* Every test trial follows test_interval_ others, and the report has a point
\* for each.
Spaced ==
  test_interval_ >= 0 /\ pc # "done" =>
    /\ Tests \in Nat
    /\ Tests * (test_interval_ + 1) <= tt
    /\ tt <= Tests * (test_interval_ + 1) + test_interval_
    /\ trained = tt - Tests + Learning
    /\ \A i \in 1..Len(curve) : curve[i] = i * test_interval_

\* The last trial of each group is the test.
LEMMA TestIsLast ==
  ASSUME Types, Spaced, test_interval_ >= 0, pc # "done"
  PROVE  IsTest(tt) <=> tt = Tests * (test_interval_ + 1) + test_interval_
<1> DEFINE n == test_interval_
           r == tt - Tests * (n + 1)
<1>1. n \in Nat BY DEF Types, Config, test_interval_
<1>2. Tests \in Nat /\ r \in 0..n BY <1>1 DEF Spaced, Types
<1>3. tt = Tests * (n + 1) + r BY <1>1, <1>2 DEF Types
<1>4. tt % (n + 1) = r
  <2> HIDE DEF r, n
  <2>1. n + 1 \in Nat \ {0} /\ r \in 0..(n+1)-1 BY <1>1, <1>2
  <2> QED BY <1>2, <1>3, <2>1, Quotient
<1>5. IsTest(tt) <=> r = n BY <1>4 DEF IsTest
<1> QED BY <1>1, <1>2, <1>3, <1>5

LEMMA SpacedKept ==
  ASSUME Types, Spaced, [Next]_vars
  PROVE  Spaced'
<1> SUFFICES ASSUME test_interval_' >= 0, pc' # "done"
             PROVE  Spaced'
  BY DEF Spaced
<1> DEFINE n == test_interval_
<1>1. config' = config /\ test_interval_' = n
  BY DEF Next, vars, StartTrial, StepEnvironment, TellAgent, Report, Save,
         EndRun, Finished, test_interval_
<1>2. n \in Nat BY <1>1 DEF Types, Config, test_interval_
<1>3. IsTest(tt)' <=> n >= 0 /\ tt' % (n + 1) = n BY <1>1 DEF IsTest
<1>4. CASE UNCHANGED vars BY <1>4 DEF vars, Spaced, Tests, Learning, IsTest,
                                      test_interval_
<1>5. CASE StartTrial
  BY <1>1, <1>2, <1>5
     DEF StartTrial, Spaced, Tests, Learning, IsTest, Types
<1>6. ASSUME NEW last \in 0..2, NEW seen \in BOOLEAN,
             StepEnvironment(last, seen)
      PROVE  Spaced'
  BY <1>1, <1>2, <1>6
     DEF StepEnvironment, Spaced, Tests, Learning, IsTest, Types
<1>7. CASE TellAgent
  BY <1>1, <1>2, <1>7
     DEF TellAgent, Spaced, Tests, Learning, IsTest, Types
<1>8. CASE Report
  <2>1. CASE ~IsTest(tt)
    <3>1. /\ Tests' = Tests /\ Learning' = Learning
          /\ tt' = tt /\ trained' = trained /\ curve' = curve
      <4>1. tt' = tt /\ pc = "report" /\ pc' = "save" BY <1>8 DEF Report
      <4>2. IsTest(tt)' <=> IsTest(tt) BY <1>1, <1>3, <4>1 DEF IsTest
      <4>3. curve' = curve /\ trained' = trained
        BY <1>2, <1>8, <2>1 DEF Report
      <4>4. Tests = Len(curve) /\ Tests' = Len(curve)
        BY <2>1, <4>1, <4>2, <4>3 DEF Tests
      <4>5. Learning = 1 /\ Learning' = 1
        BY <2>1, <4>1, <4>2 DEF Learning
      <4> QED BY <4>1, <4>3, <4>4, <4>5
    <3> QED BY <1>1, <1>8, <2>1, <3>1 DEF Report, Spaced
  <2>2. CASE IsTest(tt)
    <3> DEFINE L == Len(curve)
    <3>1. /\ L \in Nat
          /\ Tests = L
          /\ tt = L * (n + 1) + n
          /\ trained = tt - L
          /\ \A i \in 1..L : curve[i] = i * n
      BY <1>1, <1>2, <1>8, <2>2, TestIsLast
         DEF Report, Spaced, Tests, Learning, Types
    <3>2. (tt + 1) \div (n + 1) = L + 1
      <4> HIDE DEF n, L
      <4>1. tt + 1 = (L + 1) * (n + 1) + 0 BY <1>2, <3>1
      <4>2. n + 1 \in Nat \ {0} /\ L + 1 \in Nat /\ 0 \in 0..(n+1)-1
        BY <1>2, <3>1
      <4> QED BY <4>1, <4>2, Quotient
    <3>3. Label = (L + 1) * n BY <1>1, <1>2, <3>1, <3>2 DEF Label
    <3>4. curve' = Append(curve, Label) /\ Label \in Int
      BY <1>2, <1>8, <2>2, <3>1, <3>3 DEF Report
    <3>5. /\ Len(curve') = L + 1
          /\ \A i \in 1..L+1 : curve'[i] = i * n
      BY <3>1, <3>3, <3>4 DEF Types
    <3>6. Tests' = L /\ Learning' = 0
      BY <1>1, <1>3, <1>8, <2>2, <3>1, <3>5
         DEF Report, Tests, Learning, IsTest
    <3> QED
      BY <1>1, <1>2, <1>8, <3>1, <3>5, <3>6 DEF Report, Spaced, Types
  <2> QED BY <2>1, <2>2
<1>9. CASE Save
  <2>1. IsTest(tt) <=> tt = Tests * (n + 1) + n
    BY <1>1, <1>2, <1>9, TestIsLast DEF Save
  <2>2. Tests' = Len(curve) /\ Learning' = 0 /\ tt' = tt + 1
    BY <1>9 DEF Save, Tests, Learning
  <2>3. /\ Tests \in Nat
        /\ Tests * (n + 1) <= tt
        /\ tt <= Tests * (n + 1) + n
        /\ trained = tt - Tests + Learning
        /\ \A i \in 1..Len(curve) : curve[i] = i * n
    BY <1>2, <1>9 DEF Save, Spaced
  <2>4. CASE IsTest(tt)
    <3>1. Tests' = Tests + 1 /\ Learning = 0
      BY <1>9, <2>2, <2>4 DEF Save, Tests, Learning, Types
    <3> QED
      BY <1>1, <1>2, <1>9, <2>1, <2>2, <2>3, <2>4, <3>1
         DEF Save, Spaced, Types
  <2>5. CASE ~IsTest(tt)
    <3>1. Tests' = Tests /\ Learning = 1
      BY <1>9, <2>2, <2>5 DEF Save, Tests, Learning
    <3> QED
      BY <1>1, <1>2, <1>9, <2>1, <2>2, <2>3, <2>5, <3>1
         DEF Save, Spaced, Types
  <2> QED BY <2>4, <2>5
<1>10. CASE EndRun
  <2>1. /\ tt' = 0 /\ curve' = <<>> /\ trained' = 0
        /\ Tests' = 0 /\ Learning' = 0
    BY <1>10 DEF EndRun, ResetAfter, Tests, Learning
  <2> QED BY <1>1, <1>2, <2>1 DEF Spaced
<1>11. CASE Finished
  BY <1>11 DEF Finished, vars, Spaced, Tests, Learning, IsTest,
               test_interval_
<1> QED
  BY <1>4, <1>5, <1>6, <1>7, <1>8, <1>9, <1>10, <1>11 DEF Next

\* For every test interval: the report names the number of trials that the
\* learner has learnt from, and there are test_interval_ of them between two
\* tests (online_learning.cpp:144-148, 202).
THEOREM CurveIsCurrent == Spec => []CurveCurrent
<1>1. Init => Spaced
  BY OnlineLearningAssumption
     DEF Init, Spaced, Tests, Learning, Config, test_interval_
<1>2. Types /\ Spaced => CurveCurrent
  <2> SUFFICES ASSUME Types, Spaced, test_interval_ >= 0, pc = "save",
                      IsTest(tt)
               PROVE  /\ curve[Len(curve)] = trained
                      /\ \A i \in DOMAIN curve : curve[i] = i * test_interval_
    BY DEF CurveCurrent
  <2> DEFINE n == test_interval_
  <2>1. n \in Nat BY DEF Types, Config, test_interval_
  <2>2. tt = Tests * (n + 1) + n BY TestIsLast
  <2>3. /\ Tests \in Nat /\ Len(curve) = Tests + 1
        /\ trained = tt - Tests
        /\ \A i \in 1..Len(curve) : curve[i] = i * n
    BY DEF Spaced, Tests, Learning, Types
  <2> QED BY <2>1, <2>2, <2>3 DEF Types
<1> QED BY <1>1, <1>2, Typed, SpacedKept, PTL DEF Spec

-----------------------------------------------------------------------------
(* The policies that are saved after a test trial.                          *)

SaveTypes == rr \in Nat /\ saves \in Seq([run : Nat, trained : Nat])

LEMMA SavesTyped == Spec => [](Types /\ SaveTypes)
<1>1. Init => SaveTypes BY DEF Init, SaveTypes
<1>2. Types /\ SaveTypes /\ [Next]_vars => SaveTypes'
  <2> SUFFICES ASSUME Types, SaveTypes, [Next]_vars PROVE SaveTypes'
    OBVIOUS
  <2>1. Saved \in Seq([run : Nat, trained : Nat])
    BY DEF Saved, Types, SaveTypes
  <2>2. saves' \in {saves, Saved} /\ rr' \in {rr, rr + 1}
    BY DEF Next, vars, StartTrial, StepEnvironment, TellAgent, Report, Save,
           EndRun, Finished
  <2> QED BY <2>1, <2>2 DEF SaveTypes
<1> QED BY <1>1, <1>2, Typed, PTL DEF Spec

\* After the policies of the earlier runs there is one for each test trial of
\* this run that is over.
Earlier == Len(saves) - Tests
SavedSoFar ==
  save_every_ = "test" /\ test_interval_ >= 0 /\ pc # "done" =>
    /\ Earlier \in Nat
    /\ \A i \in 1..Earlier : saves[i].run < rr
    /\ \A i \in 1..Tests :
         saves[Earlier + i] = [run |-> rr, trained |-> curve[i]]

\* Steps that neither save nor report leave the two together.
LEMMA SavedSoFarSame ==
  ASSUME SavedSoFar, UNCHANGED <<config, saves, rr>>, Tests' = Tests,
         \A i \in 1..Tests : curve'[i] = curve[i], pc # "done"
  PROVE  SavedSoFar'
<1>1. Earlier' = Earlier /\ save_every_' = save_every_
      /\ test_interval_' = test_interval_
  BY DEF Earlier, save_every_, test_interval_
<1> QED BY <1>1 DEF SavedSoFar

LEMMA SavedSoFarKept ==
  ASSUME Types, Types', SaveTypes, SaveTypes', Spaced, Spaced', CurveCurrent,
         SavedSoFar, [Next]_vars
  PROVE  SavedSoFar'
<1> SUFFICES ASSUME save_every_' = "test", test_interval_' >= 0, pc' # "done"
             PROVE  SavedSoFar'
  BY DEF SavedSoFar
<1>1. config' = config /\ test_interval_ >= 0 /\ save_every_ = "test"
  BY DEF Next, vars, StartTrial, StepEnvironment, TellAgent, Report, Save,
         EndRun, Finished, test_interval_, save_every_
<1>2. IsTest(tt)' <=> tt' % (test_interval_ + 1) = test_interval_
  BY <1>1 DEF IsTest, test_interval_
<1>3. CASE UNCHANGED vars \/ Finished
  <2>1. UNCHANGED vars BY <1>3 DEF Finished
  <2>2. Tests' = Tests BY <2>1 DEF vars, Tests, IsTest, test_interval_
  <2> QED BY <2>1, <2>2, SavedSoFarSame DEF vars
<1>4. CASE StartTrial
  BY <1>4, SavedSoFarSame DEF StartTrial, Tests
<1>5. ASSUME NEW last \in 0..2, NEW seen \in BOOLEAN,
             StepEnvironment(last, seen)
      PROVE  SavedSoFar'
  BY <1>5, SavedSoFarSame DEF StepEnvironment, Tests
<1>6. CASE TellAgent BY <1>6, SavedSoFarSame DEF TellAgent, Tests
<1>7. CASE Report
  <2>1. pc = "report" /\ pc' = "save" /\ UNCHANGED <<config, saves, rr, tt>>
    BY <1>7 DEF Report
  <2>2. IsTest(tt)' <=> IsTest(tt) BY <1>1, <1>2, <2>1 DEF IsTest
  <2>3. Tests = Len(curve) BY <2>1 DEF Tests
  <2>4. CASE IsTest(tt)
    <3>1. curve' = Append(curve, Label) BY <1>7, <2>4 DEF Report
    <3>2. Label \in Int BY DEF Label, Types, Config, test_interval_
    <3>3. /\ Len(curve') = Len(curve) + 1
          /\ \A i \in 1..Len(curve) : curve'[i] = curve[i]
      BY <3>1, <3>2 DEF Types
    <3>4. Tests' = Len(curve) BY <2>1, <2>2, <2>4, <3>3 DEF Tests, Types
    <3> QED BY <2>1, <2>3, <3>3, <3>4, SavedSoFarSame
  <2>5. CASE ~IsTest(tt)
    <3>1. curve' = curve
      BY <1>1, <1>7, <2>5 DEF Report, Types, Config, test_interval_
    <3>2. Tests' = Len(curve) BY <2>1, <2>2, <2>5, <3>1 DEF Tests
    <3> QED BY <2>1, <2>3, <3>1, <3>2, SavedSoFarSame
  <2> QED BY <2>4, <2>5
<1>8. CASE Save
  <2>1. /\ pc = "save" /\ pc' = "trials" /\ UNCHANGED <<config, rr, curve>>
        /\ Tests' = Len(curve)
    BY <1>8 DEF Save, Tests
  <2>2. CASE ~IsTest(tt)
    <3>1. saves' = saves /\ Tests = Len(curve)
      BY <1>1, <1>8, <2>2 DEF Save, SaveTrial, Tests
    <3> QED BY <2>1, <3>1, SavedSoFarSame
  <2>3. CASE IsTest(tt)
    <3> DEFINE L == Len(curve)
               new == [run |-> rr, trained |-> trained]
    <3>1. saves' = Append(saves, new)
      BY <1>1, <1>8, <2>3 DEF Save, SaveTrial, Saved
    <3>2. /\ Tests = L - 1 /\ Tests \in Nat /\ L \in Nat /\ Len(saves) \in Nat
      BY <1>1, <2>1, <2>3 DEF Tests, Spaced, Types, SaveTypes
    <3>3. curve[L] = trained BY <1>1, <2>1, <2>3 DEF CurveCurrent
    <3>4. /\ Len(saves') = Len(saves) + 1
          /\ \A i \in 1..Len(saves) : saves'[i] = saves[i]
          /\ saves'[Len(saves) + 1] = new
      BY <3>1 DEF SaveTypes, Types
    <3>5. /\ Earlier \in Nat
          /\ \A i \in 1..Earlier : saves[i].run < rr
          /\ \A i \in 1..Tests :
               saves[Earlier + i] = [run |-> rr, trained |-> curve[i]]
      BY <1>1, <2>1 DEF SavedSoFar
    <3>6. Earlier' = Earlier /\ Earlier + Tests = Len(saves)
      BY <2>1, <3>2, <3>4 DEF Earlier
    <3>7. \A i \in 1..Earlier : saves'[i].run < rr
      BY <3>2, <3>4, <3>5, <3>6
    <3>8. ASSUME NEW i \in 1..L
          PROVE  saves'[Earlier + i] = [run |-> rr, trained |-> curve[i]]
      <4>1. CASE i = L
        <5>1. Earlier + i = Len(saves) + 1 BY <3>2, <3>5, <3>6, <4>1
        <5> QED BY <3>3, <3>4, <4>1, <5>1
      <4>2. CASE i # L
        <5>1. i \in 1..Tests /\ Earlier + i \in 1..Len(saves)
          BY <3>2, <3>5, <3>6, <4>2
        <5> QED BY <3>4, <3>5, <5>1
      <4> QED BY <4>1, <4>2
    <3> QED BY <2>1, <3>5, <3>6, <3>7, <3>8 DEF SavedSoFar
  <2> QED BY <2>2, <2>3
<1>9. CASE EndRun
  <2>1. /\ pc = "trials" /\ saves' = saves /\ rr' = rr + 1
        /\ curve' = <<>> /\ pc' = "trials"
    BY <1>1, <1>9 DEF EndRun
  <2>2. Tests' = 0 /\ Tests = Len(curve) BY <2>1 DEF Tests
  <2>3. /\ Earlier \in Nat
        /\ \A i \in 1..Earlier : saves[i].run < rr
        /\ \A i \in 1..Tests :
             saves[Earlier + i] = [run |-> rr, trained |-> curve[i]]
    BY <1>1, <2>1 DEF SavedSoFar
  <2>4. Earlier' = Len(saves) /\ Len(saves) \in Nat /\ Len(curve) \in Nat
    BY <2>1, <2>2 DEF Earlier, SaveTypes, Types
  <2>5. ASSUME NEW i \in 1..Len(saves) PROVE saves[i].run < rr + 1
    <3>1. CASE i \in 1..Earlier
      <4>1. saves[i].run < rr BY <2>3, <3>1
      <4>2. saves[i] \in [run : Nat, trained : Nat]
        <5> DEFINE S == [run : Nat, trained : Nat]
        <5>1. saves \in Seq(S) BY DEF SaveTypes
        <5> HIDE DEF S
        <5>2. saves[i] \in S BY <2>5, <5>1
        <5> QED BY <5>2 DEF S
      <4>3. saves[i].run \in Nat BY <4>2
      <4> HIDE DEF Earlier
      <4> QED BY <4>1, <4>3 DEF SaveTypes
    <3>2. CASE i \notin 1..Earlier
      <4>1. i - Earlier \in 1..Tests /\ Earlier + (i - Earlier) = i
        BY <2>2, <2>3, <2>4, <3>2 DEF Earlier
      <4>2. saves[i] = [run |-> rr, trained |-> curve[i - Earlier]]
        <5> DEFINE j == i - Earlier
        <5>1. saves[Earlier + j] = [run |-> rr, trained |-> curve[j]]
          BY <2>3, <4>1
        <5> QED BY <4>1, <5>1
      <4>3. saves[i].run = rr BY <4>2
      <4> QED BY <4>3 DEF SaveTypes
    <3> QED BY <3>1, <3>2
  <2> QED BY <2>1, <2>2, <2>4, <2>5 DEF SavedSoFar
<1> QED BY <1>3, <1>4, <1>5, <1>6, <1>7, <1>8, <1>9 DEF Next

\* For every test interval and any number of runs and trials: the policies
\* that are saved after the test trials of a run are those of its report
\* (online_learning.cpp:202, 239-249).
THEOREM ReportIsSaved == Spec => []SavedAsReported
<1>1. Init => Spaced /\ SavedSoFar
  BY OnlineLearningAssumption
     DEF Init, Spaced, Tests, Learning, Config, test_interval_, SavedSoFar,
         Earlier
<1>2. SavedSoFar /\ Types => SavedAsReported
  <2> SUFFICES ASSUME SavedSoFar, Types, pc = "trials",
                      save_every_ = "test", test_interval_ >= 0
               PROVE  /\ Len(saves) - Len(curve) >= 0
                      /\ \A i \in 1..Len(saves) - Len(curve) :
                           saves[i].run < rr
                      /\ \A i \in DOMAIN curve :
                           saves[Len(saves) - Len(curve) + i] =
                             [run |-> rr, trained |-> curve[i]]
    BY DEF SavedAsReported
  <2>1. Tests = Len(curve) /\ DOMAIN curve = 1..Len(curve)
    BY DEF Tests, Types
  <2>2. Earlier = Len(saves) - Len(curve) BY <2>1 DEF Earlier
  <2> QED BY <2>1, <2>2 DEF SavedSoFar
<1> QED
  BY <1>1, <1>2, Typed, SavesTyped, SpacedKept, SavedSoFarKept, CurveIsCurrent,
     PTL DEF Spec
=============================================================================
