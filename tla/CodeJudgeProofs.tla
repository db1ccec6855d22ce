---------------------------- MODULE CodeJudgeProofs ----------------------------
(***************************************************************************)
(* What a submission is told, for any number of processes, programs,       *)
(* problems and samples.  A process that is alone finds in the files what  *)
(* it put there itself, because a second process that starts ends its      *)
(* being alone; what earlier processes have left is emptied or written     *)
(* over before it is read.                                                 *)
(***************************************************************************)
EXTENDS CodeJudge, TLAPS, FiniteSetTheorems

Runs(j) == pc[j] \in {"case", "exec", "compare"}

(* The locals of run() are fresh outside of it.                            *)
Fresh(j) ==
  /\ pc[j] \notin {"case", "exec", "compare", "hung"} => i[j] = 1 /\ acNum[j] = 0
  /\ pc[j] # "none" => submitted[j] \in Programs
  /\ Runs(j) => problem[j] \in DOMAIN Cases

(* Who is alone is the only one at work.                                   *)
Solo(j) == alone[j] /\ j \in Busy => Busy = {j}

(* What one who is alone finds in the files.                               *)
Files(j) ==
  /\ pc[j] \in {"compile", "g++"} => codeCpp = submitted[j]
  /\ pc[j] = "g++" => errorStatus = None
  /\ pc[j] = "compiled" => /\ errorStatus \in {None, submitted[j]}
                           /\ errorStatus = None =>
                                /\ code = submitted[j]
                                /\ submitted[j] \notin Broken \cup Warned
  /\ Runs(j) => code = submitted[j] /\ submitted[j] \notin Broken \cup Warned
  /\ pc[j] = "exec" => inFile[Sample(j)] = "empty"
  /\ pc[j] = "compare" => codeOut[Sample(j)] = [of |-> submitted[j], from |-> "empty"]

(* The samples before n that the program of j passes on empty input.       *)
Passed(j, n) == {s \in OnEmpty[submitted[j]] : s[1] = problem[j] /\ s[2] < n}

Counts(j) ==
  Runs(j) => /\ IsFiniteSet(Passed(j, i[j]))
             /\ acNum[j] = Cardinality(Passed(j, i[j]))

(* What one who was alone is told.                                         *)
Told(j) ==
  /\ pc[j] # "done" => verdict[j] = None
  /\ IsError(verdict[j]) => verdict[j].errorsOf = submitted[j]
  /\ IsCount(verdict[j]) =>
       /\ submitted[j] \notin Broken \cup Warned
       /\ verdict[j].passed = Cardinality({s \in OnEmpty[submitted[j]] : s[1] = problem[j]})

Itself(j) == Files(j) /\ Counts(j) /\ Told(j)

IInv ==
  /\ TypeOK
  /\ \A j \in Judges : Fresh(j) /\ Solo(j) /\ (alone[j] => Itself(j))

-------------------------------------------------------------------------------
(* Samples                                                                 *)

LEMMA SampleOf ==
  ASSUME NEW s \in Samples
  PROVE  /\ s[1] \in DOMAIN Cases /\ s[2] \in Nat \ {0} /\ s = <<s[1], s[2]>>
         /\ s[2] <= Cases[s[1]] /\ Cases[s[1]] \in Nat
<1>1. PICK p \in DOMAIN Cases : s \in {p} \X (1 .. Cases[p])
  BY DEF Samples
<1>2. Cases[p] \in Nat
  BY CodeJudgeAssumption
<1> QED
  BY <1>1, <1>2

LEMMA InSamples ==
  ASSUME NEW p \in DOMAIN Cases, NEW n \in Nat \ {0}
  PROVE  <<p, n>> \in Samples <=> n <= Cases[p]
<1>1. Cases[p] \in Nat
  BY CodeJudgeAssumption
<1>2. n <= Cases[p] => <<p, n>> \in {p} \X (1 .. Cases[p])
  BY <1>1
<1>3. <<p, n>> \in Samples => n <= Cases[p]
  BY SampleOf
<1> QED
  BY <1>2, <1>3 DEF Samples

-------------------------------------------------------------------------------
(* Types                                                                   *)

LEMMA InitTypeOK == Init => TypeOK
  BY CodeJudgeAssumption DEF Init, TypeOK, Verdict, Output

LEMMA SubmitTypeOK ==
  ASSUME TypeOK, NEW k \in Judges, Submit(k)
  PROVE  TypeOK'
<1>1. PICK p \in Programs, q \in Problems :
        /\ submitted' = [submitted EXCEPT ![k] = p]
        /\ problem' = [problem EXCEPT ![k] = q]
        /\ codeCpp' = p
        /\ pc' = [pc EXCEPT ![k] = IF p = NoCode THEN "done" ELSE "compile"]
  BY DEF Submit
<1>2. /\ submitted' \in [Judges -> Programs \cup {None}]
      /\ problem' \in [Judges -> Problems \cup {None}]
      /\ verdict' \in [Judges -> Verdict]
      /\ pc' \in [Judges -> {"none", "compile", "g++", "compiled", "case", "exec", "hung",
                             "compare", "done"}]
  BY <1>1 DEF Submit, TypeOK, Prints, Verdict
<1>3. alone' \in [Judges -> BOOLEAN]
  BY DEF Submit, TypeOK
<1>4. ASSUME NEW j \in Judges, pc'[j] \in {"exec", "compare", "hung"}
      PROVE  Sample(j)' \in Samples
  <2>1. j # k /\ pc[j] = pc'[j] /\ problem'[j] = problem[j] /\ i' = i
    BY <1>1, <1>4 DEF TypeOK, Submit
  <2> QED
    BY <1>4, <2>1 DEF TypeOK, Sample
<1> QED
  BY <1>1, <1>2, <1>3, <1>4 DEF TypeOK, Submit, samples

LEMMA JudgeTypeOK ==
  ASSUME TypeOK, NEW k \in Judges, Judge(k)
  PROVE  TypeOK'
<1>1. CASE EmptyErrors(k)
  BY <1>1 DEF TypeOK, EmptyErrors, Goto, form, samples, Sample
<1>2. CASE Gxx(k)
  BY <1>2 DEF TypeOK, Gxx, Goto, form, samples, Sample
<1>3. CASE CompileFailed(k)
  <2>1. [errorsOf |-> errorStatus] \in Verdict
    BY <1>3, CodeJudgeAssumption DEF TypeOK, CompileFailed, Verdict
  <2>2. verdict' \in [Judges -> Verdict]
    BY <1>3, <2>1 DEF TypeOK, CompileFailed, Prints
  <2> QED
    BY <1>3, <2>2 DEF TypeOK, CompileFailed, Goto, form, sources, samples, Sample
<1>4. CASE NoSamples(k)
  BY <1>4 DEF TypeOK, NoSamples, Goto, form, sources, samples, Sample
<1>5. CASE Compiled(k)
  BY <1>5 DEF TypeOK, Compiled, Goto, form, sources, samples, Sample
<1>6. CASE OpenFiles(k)
  <2>1. inFile' \in [Samples -> {"given", "empty"}] /\ codeOut' \in [Samples -> Output]
    BY <1>6 DEF TypeOK, OpenFiles, Output
  <2> QED
    BY <1>6, <2>1 DEF TypeOK, OpenFiles, Goto, form, sources, Sample
<1>7. CASE Exec(k)
  <2>1. pc[k] = "exec" /\ Sample(k) \in Samples
    BY <1>7 DEF TypeOK, Exec, Goto
  <2>2. code # None => [of |-> code, from |-> inFile[Sample(k)]] \in Output
    BY <2>1 DEF TypeOK, Output
  <2>3. codeOut' \in [Samples -> Output]
    BY <1>7, <2>1, <2>2 DEF TypeOK, Exec
  <2>4. /\ pc' \in [Judges -> {"none", "compile", "g++", "compiled", "case", "exec", "hung",
                               "compare", "done"}]
        /\ \A j \in Judges : pc'[j] \in {"exec", "compare", "hung"} =>
                               pc[j] \in {"exec", "compare", "hung"}
    BY <1>7 DEF TypeOK, Exec, Goto
  <2> QED
    BY <1>7, <2>3, <2>4 DEF TypeOK, Exec, form, sources, Sample
<1>8. CASE Compare(k)
  <2>1. /\ i' = [i EXCEPT ![k] = i[k] + 1]
        /\ acNum' = [acNum EXCEPT ![k] = IF Accepted(Sample(k)) THEN acNum[k] + 1 ELSE acNum[k]]
        /\ pc' = [pc EXCEPT ![k] = "case"]
    BY <1>8 DEF Compare, Goto
  <2>2. /\ i' \in [Judges -> Nat \ {0}] /\ acNum' \in [Judges -> Nat]
        /\ \A j \in Judges : acNum'[j] < i'[j]
    BY <2>1 DEF TypeOK
  <2>3. \A j \in Judges : pc'[j] \in {"exec", "compare", "hung"} =>
                            pc'[j] = pc[j] /\ i'[j] = i[j]
    BY <2>1 DEF TypeOK
  <2> QED
    BY <1>8, <2>1, <2>2, <2>3 DEF TypeOK, Compare, form, sources, samples, Sample
<1>9. CASE Report(k)
  <2>1. [passed |-> acNum[k]] \in Verdict
    BY DEF TypeOK, Verdict
  <2>2. verdict' \in [Judges -> Verdict]
    BY <1>9, <2>1 DEF TypeOK, Report, Prints
  <2>3. /\ i' = [i EXCEPT ![k] = 1] /\ acNum' = [acNum EXCEPT ![k] = 0]
        /\ pc' = [pc EXCEPT ![k] = "done"]
    BY <1>9 DEF Report, Goto
  <2> QED
    BY <1>9, <2>2, <2>3 DEF TypeOK, Report, form, sources, samples, Sample
<1> QED
  BY <1>1, <1>2, <1>3, <1>4, <1>5, <1>6, <1>7, <1>8, <1>9 DEF Judge

-------------------------------------------------------------------------------
(* The invariant                                                           *)

LEMMA InitIInv == Init => IInv
<1>1. ASSUME Init, NEW j \in Judges
      PROVE  Fresh(j) /\ Solo(j) /\ Files(j) /\ Counts(j)
  BY <1>1 DEF Init, Fresh, Runs, Solo, Busy, Files, Counts
<1>2. ASSUME Init, NEW j \in Judges
      PROVE  Told(j)
  BY <1>2, CodeJudgeAssumption DEF Init, Told, IsError, IsCount
<1> QED
  BY <1>1, <1>2, InitTypeOK DEF IInv, Itself

(* A new submission ends the being alone of whoever is at work.            *)
LEMMA SubmitIInv ==
  ASSUME IInv, NEW k \in Judges, Submit(k)
  PROVE  IInv'
<1>1. TypeOK /\ TypeOK'
  BY SubmitTypeOK DEF IInv
<1>2. PICK p \in Programs, q \in Problems :
        /\ submitted' = [submitted EXCEPT ![k] = p]
        /\ problem' = [problem EXCEPT ![k] = q]
        /\ codeCpp' = p
        /\ pc' = [pc EXCEPT ![k] = IF p = NoCode THEN "done" ELSE "compile"]
  BY DEF Submit
<1>3. /\ verdict' = [verdict EXCEPT ![k] = None]
      /\ i' = i /\ acNum' = acNum
      /\ alone' = [j \in Judges |-> IF j = k THEN Busy = {} ELSE alone[j] /\ j \notin Busy]
      /\ pc[k] \in {"none", "done"}
  BY DEF Submit, Prints
<1>4. ASSUME NEW j \in Judges, j # k
      PROVE  Fresh(j)' /\ Solo(j)' /\ (alone'[j] => Itself(j)')
  <2>1. /\ pc'[j] = pc[j] /\ submitted'[j] = submitted[j] /\ problem'[j] = problem[j]
        /\ verdict'[j] = verdict[j] /\ i'[j] = i[j] /\ acNum'[j] = acNum[j]
    BY <1>1, <1>2, <1>3, <1>4 DEF TypeOK
  <2>2. alone'[j] => alone[j] /\ j \notin Busy
    BY <1>3, <1>4
  <2>3. alone'[j] => pc[j] \in {"none", "done"}
    BY <2>2 DEF Busy
  <2>4. Fresh(j)'
    BY <2>1 DEF Fresh, Runs, IInv
  <2>5. Solo(j)'
    BY <2>1, <2>3 DEF Solo, Busy
  <2>6. alone'[j] => Files(j)' /\ Counts(j)'
    BY <2>1, <2>3 DEF Files, Counts, Runs
  <2>7. alone'[j] => Told(j)'
    <3>1. alone'[j] => Told(j)
      BY <2>2 DEF IInv, Itself
    <3> QED
      BY <2>1, <3>1 DEF Told, IsError, IsCount
  <2> QED
    BY <2>4, <2>5, <2>6, <2>7 DEF Itself
<1>5. Fresh(k)'
  <2>1. i[k] = 1 /\ acNum[k] = 0
    BY <1>3 DEF IInv, Fresh
  <2> QED
    BY <1>1, <1>2, <1>3, <2>1 DEF Fresh, Runs, TypeOK
<1>6. Solo(k)'
  <2>1. alone'[k] => Busy = {}
    BY <1>3
  <2>2. \A j \in Judges : j # k => pc'[j] = pc[j]
    BY <1>1, <1>2 DEF TypeOK
  <2> QED
    BY <2>1, <2>2 DEF Solo, Busy
<1>7. Itself(k)'
  <2>1. /\ pc'[k] \in {"compile", "done"} /\ submitted'[k] = p /\ codeCpp' = p
        /\ verdict'[k] = None
    BY <1>1, <1>2, <1>3 DEF TypeOK
  <2>2. Files(k)' /\ Counts(k)'
    BY <2>1 DEF Files, Counts, Runs
  <2>3. Told(k)'
    BY <2>1, CodeJudgeAssumption DEF Told, IsError, IsCount
  <2> QED
    BY <2>2, <2>3 DEF Itself
<1> QED
  BY <1>1, <1>4, <1>5, <1>6, <1>7 DEF IInv

(* A step of one process: what it leaves alone.                            *)
LEMMA JudgeFrame ==
  ASSUME TypeOK, NEW k \in Judges, Judge(k)
  PROVE  /\ k \in Busy
         /\ submitted' = submitted /\ problem' = problem /\ alone' = alone
         /\ \A j \in Judges \ {k} :
              /\ pc'[j] = pc[j] /\ verdict'[j] = verdict[j]
              /\ i'[j] = i[j] /\ acNum'[j] = acNum[j]
<1>1. CASE EmptyErrors(k)
  BY <1>1 DEF TypeOK, EmptyErrors, Goto, form, Busy
<1>2. CASE Gxx(k)
  BY <1>2 DEF TypeOK, Gxx, Goto, form, Busy
<1>3. CASE CompileFailed(k)
  BY <1>3 DEF TypeOK, CompileFailed, Goto, form, Busy, Prints
<1>4. CASE NoSamples(k)
  BY <1>4 DEF TypeOK, NoSamples, Goto, form, Busy
<1>5. CASE Compiled(k)
  BY <1>5 DEF TypeOK, Compiled, Goto, form, Busy
<1>6. CASE OpenFiles(k)
  BY <1>6 DEF TypeOK, OpenFiles, Goto, form, Busy
<1>7. CASE Exec(k)
  BY <1>7 DEF TypeOK, Exec, Goto, form, Busy
<1>8. CASE Compare(k)
  BY <1>8 DEF TypeOK, Compare, Goto, form, Busy
<1>9. CASE Report(k)
  BY <1>9 DEF TypeOK, Report, Goto, form, Busy, Prints
<1> QED
  BY <1>1, <1>2, <1>3, <1>4, <1>5, <1>6, <1>7, <1>8, <1>9 DEF Judge

LEMMA JudgeFresh ==
  ASSUME TypeOK, NEW k \in Judges, Judge(k), Fresh(k)
  PROVE  Fresh(k)'
<1>1. CASE EmptyErrors(k) \/ Gxx(k) \/ NoSamples(k) \/ OpenFiles(k) \/ Exec(k)
  BY <1>1 DEF TypeOK, EmptyErrors, Gxx, NoSamples, OpenFiles, Exec, Goto, form, Fresh, Runs
<1>2. CASE CompileFailed(k)
  BY <1>2 DEF TypeOK, CompileFailed, Goto, form, Fresh, Runs
<1>3. CASE Compiled(k)
  BY <1>3 DEF TypeOK, Compiled, Goto, form, Fresh, Runs
<1>4. CASE Compare(k)
  BY <1>4 DEF TypeOK, Compare, Goto, form, Fresh, Runs
<1>5. CASE Report(k)
  BY <1>5 DEF TypeOK, Report, Goto, form, Fresh, Runs
<1> QED
  BY <1>1, <1>2, <1>3, <1>4, <1>5 DEF Judge

(* One more sample, counted if the program passes it.                      *)
LEMMA OneMore ==
  ASSUME NEW j \in Judges, NEW n \in Nat \ {0}, IsFiniteSet(Passed(j, n)),
         NEW b, b = <<problem[j], n>>, submitted[j] \in Programs
  PROVE  /\ IsFiniteSet(Passed(j, n + 1))
         /\ Cardinality(Passed(j, n + 1)) =
              IF b \in OnEmpty[submitted[j]] THEN Cardinality(Passed(j, n)) + 1
                                              ELSE Cardinality(Passed(j, n))
<1>1. OnEmpty[submitted[j]] \subseteq Samples
  BY CodeJudgeAssumption
<1>2. \A s \in OnEmpty[submitted[j]] : s[2] \in Nat /\ s = <<s[1], s[2]>>
  BY <1>1, SampleOf
<1>3. CASE b \in OnEmpty[submitted[j]]
  <2>1. Passed(j, n + 1) = Passed(j, n) \cup {b}
    BY <1>2, <1>3 DEF Passed
  <2>2. b \notin Passed(j, n)
    BY DEF Passed
  <2> QED
    BY <1>3, <2>1, <2>2, FS_AddElement
<1>4. CASE b \notin OnEmpty[submitted[j]]
  <2>1. Passed(j, n + 1) = Passed(j, n)
    BY <1>2, <1>4 DEF Passed
  <2> QED
    BY <1>4, <2>1
<1> QED
  BY <1>3, <1>4

LEMMA JudgeItself ==
  ASSUME TypeOK, TypeOK', NEW k \in Judges, Judge(k), Fresh(k), Fresh(k)', Itself(k)
  PROVE  Itself(k)'
<1> USE DEF Itself
<1>0. /\ submitted' = submitted /\ problem' = problem
      /\ submitted[k] \in Programs
  BY JudgeFrame DEF Fresh, Busy
<1>1. CASE EmptyErrors(k)
  <2>1. pc[k] = "compile" /\ pc'[k] = "g++" /\ errorStatus' = None /\ codeCpp' = codeCpp
        /\ verdict' = verdict
    BY <1>1 DEF EmptyErrors, Goto, TypeOK
  <2> QED
    BY <1>0, <2>1 DEF Files, Counts, Told, Runs, IsError, IsCount
<1>2. CASE Gxx(k)
  <2>1. pc[k] = "g++" /\ pc'[k] = "compiled" /\ verdict' = verdict
        /\ codeCpp = submitted[k] /\ errorStatus = None
    BY <1>2 DEF Gxx, Goto, TypeOK, Files
  <2>2. Files(k)'
    <3>1. submitted[k] # None
      BY <1>0, CodeJudgeAssumption
    <3> QED
      BY <1>0, <1>2, <2>1, <3>1, CodeJudgeAssumption DEF Files, Gxx, Runs
  <2> QED
    BY <1>0, <2>1, <2>2 DEF Counts, Told, Runs, IsError, IsCount
<1>3. CASE CompileFailed(k)
  <2>1. /\ pc'[k] = "done" /\ errorStatus = submitted[k]
        /\ verdict'[k] = [errorsOf |-> submitted[k]]
    BY <1>3 DEF CompileFailed, Goto, Prints, TypeOK, Files
  <2>2. ~ IsCount(verdict'[k])
    BY <2>1 DEF IsCount
  <2> QED
    BY <1>0, <2>1, <2>2 DEF Files, Counts, Told, Runs, IsError, IsCount
<1>4. CASE NoSamples(k)
  <2>1. pc[k] = "compiled" /\ pc'[k] = "done" /\ verdict' = verdict
    BY <1>4 DEF NoSamples, Goto, TypeOK
  <2> QED
    BY <1>0, <2>1 DEF Files, Counts, Told, Runs, IsError, IsCount
<1>5. CASE Compiled(k)
  <2>1. pc[k] = "compiled" /\ pc'[k] = "case" /\ verdict' = verdict /\ errorStatus = None
        /\ code' = code /\ i' = i /\ acNum' = acNum /\ i[k] = 1 /\ acNum[k] = 0
    BY <1>5 DEF Compiled, Goto, TypeOK, sources, Fresh
  <2>2. Passed(k, 1) = {}
    <3>1. \A s \in OnEmpty[submitted[k]] : s[2] \in Nat \ {0}
      BY <1>0, CodeJudgeAssumption, SampleOf
    <3> QED
      BY <3>1 DEF Passed
  <2>3. Counts(k)'
    <3>1. Passed(k, 1)' = {}
      BY <1>0, <2>2 DEF Passed
    <3> QED
      BY <2>1, <3>1, FS_EmptySet DEF Counts
  <2> QED
    BY <1>0, <2>1, <2>3 DEF Files, Told, Runs, IsError, IsCount
<1>6. CASE OpenFiles(k)
  <2>1. pc[k] = "case" /\ pc'[k] = "exec" /\ verdict' = verdict
        /\ code' = code /\ i' = i /\ acNum' = acNum /\ Sample(k) \in Samples
        /\ inFile' = [inFile EXCEPT ![Sample(k)] = "empty"]
    BY <1>6 DEF OpenFiles, Goto, TypeOK, sources
  <2>2. Files(k)'
    BY <1>0, <2>1 DEF Files, Runs, TypeOK, Sample
  <2>3. Counts(k)'
    BY <1>0, <2>1 DEF Counts, Passed, Runs
  <2> QED
    BY <1>0, <2>1, <2>2, <2>3 DEF Told, IsError, IsCount
<1>7. CASE Exec(k)
  <2>1. pc[k] = "exec" /\ pc'[k] \in {"hung", "compare"} /\ verdict' = verdict
        /\ code' = code /\ i' = i /\ acNum' = acNum /\ Sample(k) \in Samples
        /\ code = submitted[k] /\ inFile[Sample(k)] = "empty"
    BY <1>7 DEF Exec, Goto, TypeOK, sources, Files, Runs
  <2>2. codeOut' = [codeOut EXCEPT ![Sample(k)] = [of |-> submitted[k], from |-> "empty"]]
    BY <1>0, <1>7, <2>1, CodeJudgeAssumption DEF Exec
  <2>3. Files(k)'
    BY <1>0, <2>1, <2>2 DEF Files, Runs, TypeOK, Sample
  <2>4. Counts(k)'
    BY <1>0, <2>1 DEF Counts, Passed, Runs
  <2> QED
    BY <1>0, <2>1, <2>3, <2>4 DEF Told, IsError, IsCount
<1>8. CASE Compare(k)
  <2>1. pc[k] = "compare" /\ pc'[k] = "case" /\ verdict' = verdict /\ code' = code
        /\ i'[k] = i[k] + 1
        /\ acNum'[k] = IF Accepted(Sample(k)) THEN acNum[k] + 1 ELSE acNum[k]
    BY <1>8 DEF Compare, Goto, TypeOK, sources
  <2>2. Accepted(Sample(k)) <=> Sample(k) \in OnEmpty[submitted[k]]
    <3>1. codeOut[Sample(k)] = [of |-> submitted[k], from |-> "empty"]
      BY <2>1 DEF Files
    <3>2. codeOut[Sample(k)] # None
      BY <1>0, <3>1, CodeJudgeAssumption
    <3> QED
      BY <3>1, <3>2 DEF Accepted
  <2>3. /\ IsFiniteSet(Passed(k, i[k])) /\ acNum[k] = Cardinality(Passed(k, i[k]))
    BY <2>1 DEF Counts, Runs
  <2>4. /\ IsFiniteSet(Passed(k, i[k] + 1))
        /\ Cardinality(Passed(k, i[k] + 1)) = acNum'[k]
    <3>1. i[k] \in Nat \ {0}
      BY DEF TypeOK
    <3> QED
      BY <1>0, <2>1, <2>2, <2>3, <3>1, OneMore DEF Sample
  <2>5. Counts(k)'
    BY <1>0, <2>1, <2>4 DEF Counts, Passed
  <2>6. Files(k)'
    BY <1>0, <2>1 DEF Files, Runs
  <2> QED
    BY <1>0, <2>1, <2>5, <2>6 DEF Told, IsError, IsCount
<1>9. CASE Report(k)
  <2>1. pc[k] = "case" /\ pc'[k] = "done" /\ verdict'[k] = [passed |-> acNum[k]]
        /\ Sample(k) \notin Samples
    BY <1>9 DEF Report, Goto, Prints, TypeOK
  <2>2. acNum[k] = Cardinality(Passed(k, i[k])) /\ problem[k] \in DOMAIN Cases
        /\ submitted[k] \notin Broken \cup Warned
    BY <2>1 DEF Counts, Runs, Fresh, Files
  <2>3. ~ (i[k] <= Cases[problem[k]]) /\ i[k] \in Nat /\ Cases[problem[k]] \in Nat
    <3>1. i[k] \in Nat \ {0}
      BY DEF TypeOK
    <3>2. Cases[problem[k]] \in Nat
      BY <2>2, CodeJudgeAssumption
    <3> QED
      BY <2>1, <2>2, <3>1, <3>2, InSamples DEF Sample
  <2>4. Passed(k, i[k]) = {s \in OnEmpty[submitted[k]] : s[1] = problem[k]}
    <3>1. ASSUME NEW s \in OnEmpty[submitted[k]], s[1] = problem[k]
          PROVE  s[2] < i[k]
      <4>1. s \in Samples
        BY <1>0, CodeJudgeAssumption
      <4>2. s[2] \in Nat /\ s[2] <= Cases[problem[k]]
        BY <3>1, <4>1, SampleOf
      <4> QED
        BY <2>3, <4>2
    <3> QED
      BY <3>1 DEF Passed
  <2>5. ~ IsError(verdict'[k])
    BY <2>1 DEF IsError
  <2>6. Told(k)'
    BY <1>0, <2>1, <2>2, <2>4, <2>5 DEF Told, IsError
  <2> QED
    BY <1>0, <2>1, <2>6 DEF Files, Counts, Runs
<1> QED
  BY <1>1, <1>2, <1>3, <1>4, <1>5, <1>6, <1>7, <1>8, <1>9 DEF Judge

LEMMA JudgeIInv ==
  ASSUME IInv, NEW k \in Judges, Judge(k)
  PROVE  IInv'
<1>1. TypeOK /\ TypeOK'
  BY JudgeTypeOK DEF IInv
<1>2. Fresh(k)'
  BY <1>1, JudgeFresh DEF IInv
<1>3. Busy' \subseteq Busy /\ k \in Busy /\ alone' = alone
  BY <1>1, JudgeFrame DEF Busy
<1>4. \A j \in Judges : Solo(j)'
  BY <1>3 DEF IInv, Solo
<1>5. alone'[k] => Itself(k)'
  BY <1>1, <1>2, <1>3, JudgeItself DEF IInv
<1>6. ASSUME NEW j \in Judges, j # k
      PROVE  Fresh(j)' /\ (alone'[j] => Itself(j)')
  <2>1. /\ pc'[j] = pc[j] /\ submitted'[j] = submitted[j] /\ problem'[j] = problem[j]
        /\ verdict'[j] = verdict[j] /\ i'[j] = i[j] /\ acNum'[j] = acNum[j]
    BY <1>1, <1>6, JudgeFrame
  <2>2. alone'[j] => alone[j] /\ pc[j] \in {"none", "done"}
    BY <1>3, <1>6 DEF IInv, Solo, Busy
  <2>3. Fresh(j)'
    BY <2>1 DEF Fresh, Runs, IInv
  <2>4. alone'[j] => Files(j)' /\ Counts(j)'
    BY <2>1, <2>2 DEF Files, Counts, Runs
  <2>5. alone'[j] => Told(j)'
    <3>1. alone'[j] => Told(j)
      BY <2>2 DEF IInv, Itself
    <3> QED
      BY <2>1, <3>1 DEF Told, IsError, IsCount
  <2> QED
    BY <2>3, <2>4, <2>5 DEF Itself
<1> QED
  BY <1>1, <1>2, <1>4, <1>5, <1>6 DEF IInv

LEMMA NextIInv == IInv /\ [Next]_vars => IInv'
<1> SUFFICES ASSUME IInv, [Next]_vars
             PROVE  IInv'
  OBVIOUS
<1>1. CASE Next
  BY <1>1, SubmitIInv, JudgeIInv DEF Next
<1>2. CASE UNCHANGED vars
  <2> USE <1>2 DEF vars, form, sources, samples
  <2>1. TypeOK'
    BY DEF IInv, TypeOK, Sample
  <2>2. ASSUME NEW j \in Judges
        PROVE  Fresh(j)' /\ Solo(j)' /\ (alone'[j] => Itself(j)')
    <3>1. Fresh(j) /\ Solo(j) /\ (alone[j] => Itself(j))
      BY DEF IInv
    <3> QED
      BY <3>1 DEF Fresh, Solo, Busy, Itself, Files, Counts, Told, Runs, Passed, Sample,
                  IsError, IsCount
  <2> QED
    BY <2>1, <2>2 DEF IInv
<1> QED
  BY <1>1, <1>2

-------------------------------------------------------------------------------
(* Theorems                                                                *)

THEOREM Invariant == Spec => []IInv
  BY InitIInv, NextIInv, PTL DEF Spec

(* run() stays within the samples of its problem and never counts more     *)
(* than it has run, with any number of processes on the same files         *)
(* (cgiCodeJudge.cpp:130-173).                                             *)
THEOREM TypeCorrect == Spec => []TypeOK
<1>1. IInv => TypeOK
  BY DEF IInv
<1> QED
  BY <1>1, Invariant, PTL

(* A submission that nobody is judged beside is told of its own errors and *)
(* its own output only (cgiCodeJudge.cpp:95-118, 156-171).                 *)
THEOREM SelfJudged == Spec => []JudgedByItself
<1>1. IInv => JudgedByItself
  <2> SUFFICES ASSUME IInv, NEW j \in Judges, alone[j]
               PROVE  /\ pc[j] = "compare" => /\ codeOut[Sample(j)] # None
                                              /\ codeOut[Sample(j)].of = submitted[j]
                      /\ IsError(verdict[j]) => verdict[j].errorsOf = submitted[j]
                      /\ IsCount(verdict[j]) => submitted[j] \notin Broken \cup Warned
    BY DEF JudgedByItself
  <2>1. Fresh(j) /\ Files(j) /\ Told(j)
    BY DEF IInv, Itself
  <2>2. pc[j] = "compare" => codeOut[Sample(j)] = [of |-> submitted[j], from |-> "empty"]
                             /\ submitted[j] \in Programs
    BY <2>1 DEF Files, Fresh
  <2>3. pc[j] = "compare" => codeOut[Sample(j)] # None
    BY <2>2, CodeJudgeAssumption
  <2> QED
    BY <2>1, <2>2, <2>3 DEF Told
<1> QED
  BY <1>1, Invariant, PTL

(* What run() counts, in place of what readme.md:13 says of it             *)
(* (CountsPassedSamples): the count of a submission judged alone is the    *)
(* number of its problem's samples that its program passes on an empty     *)
(* input, whatever the input was (cgiCodeJudge.cpp:130-173).               *)
CountedOnEmptyInput ==
  \A j \in Judges : alone[j] /\ IsCount(verdict[j]) =>
    verdict[j].passed =
      Cardinality({s \in OnEmpty[submitted[j]] : s[1] = problem[j]})

(* The judge counts so, however the samples were left by earlier           *)
(* submissions.                                                            *)
THEOREM CountsOnEmpty == Spec => []CountedOnEmptyInput
<1>1. IInv => CountedOnEmptyInput
  BY DEF IInv, Itself, Told, CountedOnEmptyInput
<1> QED
  BY <1>1, Invariant, PTL
===============================================================================
